---- MODULE Spec2Model ----
(***************************************************************************)
(* A model of the MindAnalyst front end: the AuthorDetail and VideoDetail  *)
(* views (data loading, classification saves, job triggers), the status    *)
(* labels and the author status rollup, the summary rendering chain, the   *)
(* segment times, the LLM call-log view, the report tab, and the chat and  *)
(* ingest panels.                                                          *)
(***************************************************************************)
EXTENDS Integers, Sequences, FiniteSets, TLC

(***************************************************************************)
(* JavaScript values.  null, undefined and strings are tagged records, so  *)
(* that `x || d`, `!x` and `typeof x` are computed as JavaScript does.     *)
(***************************************************************************)
Null == [kind |-> "null"]
Undefined == [kind |-> "undefined"]
\* a string held as one token (a tag, a status value, a url)
Str(s) == [kind |-> "string", s |-> s]
\* a string held as its sequence of characters (text that is scanned)
Chars(cs) == [kind |-> "string", chars |-> cs]
Num(n) == [kind |-> "number", n |-> n]

\* ToBoolean: null, undefined, '' and 0 are falsy; objects and arrays are truthy
Truthy(v) ==
    CASE v.kind = "null" -> FALSE
      [] v.kind = "undefined" -> FALSE
      [] v.kind = "string" -> IF "s" \in DOMAIN v THEN v.s # "" ELSE v.chars # <<>>
      [] v.kind = "number" -> v.n # 0
      [] OTHER -> TRUE

\* a || d
OrElse(a, d) == IF Truthy(a) THEN a ELSE d

(***************************************************************************)
(* Bounds.                                                                 *)
(***************************************************************************)
\* confirmed trigger / save invocations per mounted view
MaxInvocations == 3

(***************************************************************************)
(* The backend gateway (api): one function per endpoint.                   *)
(***************************************************************************)
AuthorTriggerOps == {"regenerateReport", "resummarizeAll", "resummarizePending",
                     "reprocessAuthorAsr"}
VideoTriggerOps == {"resummarizeVideo", "reprocessVideoAsr"}
TriggerOps == AuthorTriggerOps \cup VideoTriggerOps
SaveOps == {"setAuthorType", "setVideoType"}
PublicOps == TriggerOps \cup SaveOps
GetOps == {"getAuthors", "getAuthor", "getAuthorVideos", "getVideo", "getVideoPlayback"}
ApiOps == PublicOps \cup GetOps

Endpoint_pendingAsAll(op) ==
    CASE op = "getAuthors" -> "GET /authors"
      [] op = "getAuthor" -> "GET /authors/:id"
      [] op = "getAuthorVideos" -> "GET /authors/:id/videos"
      [] op = "regenerateReport" -> "POST /authors/:id/regenerate_report"
      [] op = "setAuthorType" -> "POST /authors/:id/set_type"
      [] op = "resummarizeAll" -> "POST /authors/:id/resummarize_all"
      [] op = "resummarizePending" -> "POST /authors/:id/resummarize_all"
      [] op = "reprocessAuthorAsr" -> "POST /authors/:id/reprocess_asr"
      [] op = "getVideo" -> "GET /videos/:id"
      [] op = "getVideoPlayback" -> "GET /videos/:id/playback"
      [] op = "resummarizeVideo" -> "POST /videos/:id/resummarize"
      [] op = "reprocessVideoAsr" -> "POST /videos/:id/reprocess_asr"
      [] op = "setVideoType" -> "POST /videos/:id/set_type"

\* the URL each api function requests
Endpoint(op) ==
    CASE op = "getAuthors" -> "GET /authors"
      [] op = "getAuthor" -> "GET /authors/:id"
      [] op = "getAuthorVideos" -> "GET /authors/:id/videos"
      [] op = "regenerateReport" -> "POST /authors/:id/regenerate_report"
      [] op = "setAuthorType" -> "POST /authors/:id/set_type"
      [] op = "resummarizeAll" -> "POST /authors/:id/resummarize_all"
      [] op = "resummarizePending" -> "POST /authors/:id/resummarize_pending"
      [] op = "reprocessAuthorAsr" -> "POST /authors/:id/reprocess_asr"
      [] op = "getVideo" -> "GET /videos/:id"
      [] op = "getVideoPlayback" -> "GET /videos/:id/playback"
      [] op = "resummarizeVideo" -> "POST /videos/:id/resummarize"
      [] op = "reprocessVideoAsr" -> "POST /videos/:id/reprocess_asr"
      [] op = "setVideoType" -> "POST /videos/:id/set_type"

\* every URL of the api module that the views use
Endpoints ==
    {"GET /authors", "GET /authors/:id", "GET /authors/:id/videos",
     "POST /authors/:id/regenerate_report", "POST /authors/:id/set_type",
     "POST /authors/:id/resummarize_all", "POST /authors/:id/resummarize_pending",
     "POST /authors/:id/reprocess_asr", "GET /videos/:id", "GET /videos/:id/playback",
     "POST /videos/:id/resummarize", "POST /videos/:id/reprocess_asr",
     "POST /videos/:id/set_type"}

(***************************************************************************)
(* Backend payloads the views may receive.                                 *)
(***************************************************************************)
Report(c) == [kind |-> "report", content |-> c]

\* reports_by_type: an object, keys in insertion order, each a list of
\* reports, most recent first
ReportGroups ==
    { <<>>,
      << [type |-> "tech", reports |-> <<Report("r-tech")>>] >>,
      << [type |-> "generic", reports |-> <<Report("r-gen")>>],
         [type |-> "tech", reports |-> <<Report("r-tech")>>] >> }

LatestOf(groups) == IF groups = <<>> THEN Null ELSE groups[1].reports[1]

StatusCountsSample ==
    [kind |-> "author_status", total_videos |-> 1,
     asr_status_counts |-> [pending |-> 1],
     summary_status_counts |-> [blocked |-> 1],
     content_quality_counts |-> [summary |-> 1]]

AuthorTypes == {"", "tech"}

\* the body of GET /authors/:id
AuthorResponses ==
    { [author |-> [kind |-> "author", author_type |-> at],
       latest_report |-> LatestOf(g),
       reports_by_type |-> g,
       author_status |-> st] :
        at \in AuthorTypes, g \in ReportGroups, st \in {Null, StatusCountsSample} }

Item(id, asr, sum, q) ==
    [kind |-> "item", id |-> id, content_type |-> "",
     asr_status |-> asr, summary_status |-> sum, content_quality |-> q]

\* the body of GET /authors/:id/videos
AuthorVideosResponses ==
    { <<>>, << Item(1, Undefined, Str("blocked"), Undefined) >> }

ContentTypes == {"", "howto"}

\* the body of GET /videos/:id
VideoResponses ==
    { [video |-> [Item(1, Str("ready"), Str("ready"), Str("full")) EXCEPT !.content_type = ct],
       summary |-> s,
       segments |-> IF s = Null THEN <<>> ELSE <<[start_time_ms |-> 0, end_time_ms |-> 1500, text |-> "hi"]>>] :
        ct \in ContentTypes, s \in {Null, [kind |-> "summary", content |-> Str("text")]} }

\* route.params.id of /videos/:id and of /authors/:id
ItemIds == {1, 2}
AuthorIds == {1}

RouteIds(v) ==
    CASE v = "AuthorList" -> {0}
      [] v = "AuthorDetail" -> AuthorIds
      [] v = "VideoDetail" -> ItemIds

\* the url of GET /videos/:id/playback: a link to the media of that item
PlaybackUrlsOf(id) ==
    IF id = 1 THEN {"https://cdn/1?sig=a", "https://cdn/1?sig=b"}
    ELSE {"https://cdn/2?sig=a", "https://cdn/2?sig=b"}

PlaybackUrls == UNION {PlaybackUrlsOf(id) : id \in ItemIds}

\* the body of GET /authors
AuthorsResponses == { <<>>, << [kind |-> "author", id |-> 1], [kind |-> "author", id |-> 2] >> }

Pending == [kind |-> "pending"]

VARIABLES
    view,        \* the mounted view: "none", "AuthorList", "AuthorDetail" or "VideoDetail"
    routeId,     \* route.params.id of the mounted detail view
    listView,    \* the refs of AuthorList
    loadLog,     \* the loads of the mounted view that answered: the last outcome and what its catch did
    playbackLog, \* the playback requests of the mounted view: the last outcome, the last link received
    authorView,  \* the refs of AuthorDetail
    videoView,   \* the refs of VideoDetail
    calls,       \* the running trigger / save handlers, each awaiting its request or its re-fetch
    fetches,     \* the running fetchData calls, each with its outstanding requests
    issued,      \* requests sent so far, per endpoint
    invoked,     \* confirmed invocations so far, per public operation
    nextId,      \* the number of the next invocation
    latest,      \* the most recently started invocation: what it did and what followed
    item,        \* a ContentItem handed to a template
    badges,      \* the status values a template shows for item
    rollItems,   \* the ContentItems of an author handed to the rollup
    rollIdx,     \* how many of them the rollup pass has tallied
    statusCounts, \* the StatusCounts being built, then served as author_status
    shownCounts, \* the counts the AuthorDetail header shows for statusCounts
    summaryRec,  \* a Summary record handed to the summary panel of VideoDetail
    panel,       \* what the summary panel renders for summaryRec
    brackets     \* the value of the computed bracketBlocks for summaryRec

statusVars == <<item, badges>>
rollupVars == <<rollItems, rollIdx, statusCounts, shownCounts>>
summaryVars == <<summaryRec, panel, brackets>>

viewVars == <<view, routeId, listView, authorView, videoView, calls, fetches, issued,
              invoked, nextId, latest, loadLog, playbackLog>>

(***************************************************************************)
(* The two detail views.                                                   *)
(***************************************************************************)
AuthorViewSetup ==
    [author |-> Null, report |-> Null, reportsByType |-> <<>>,
     selectedReportType |-> "", selectedAuthorType |-> "", videos |-> <<>>,
     authorStatus |-> Null, loading |-> TRUE, processing |-> FALSE]

VideoViewSetup ==
    [video |-> Null, summary |-> Null, segments |-> <<>>, playbackUrl |-> "",
     loading |-> TRUE, processing |-> FALSE, selectedContentType |-> ""]

ListViewSetup == [authors |-> <<>>, loading |-> TRUE]

NoLoad == [last |-> "none", loaded |-> 0, console |-> "none", alert |-> "none"]

NoPlayback == [last |-> "none", url |-> "", console |-> "none", alert |-> "none"]

NoInvocation ==
    [id |-> 0, op |-> "none", outcome |-> "none", done |-> FALSE, alert |-> "none",
     fetchRuns |-> 0, entityGets |-> 0, gets |-> 0, reqs |-> 0, snap |-> Null]

\* the loaded entity state of the mounted view
Entity ==
    IF view = "AuthorDetail"
    THEN [author |-> authorView.author, report |-> authorView.report,
          reportsByType |-> authorView.reportsByType, videos |-> authorView.videos,
          authorStatus |-> authorView.authorStatus]
    ELSE [video |-> videoView.video, summary |-> videoView.summary,
          segments |-> videoView.segments, playbackUrl |-> videoView.playbackUrl]

Processing == IF view = "AuthorDetail" THEN authorView.processing ELSE videoView.processing
Loading == IF view = "AuthorDetail" THEN authorView.loading ELSE videoView.loading

\* apiClient.get / apiClient.post: one request to the function's endpoint
Bump(iss, op) == [iss EXCEPT ![Endpoint(op)] = @ + 1]

\* the window of the latest invocation sees fetchData runs and GET requests
Count(l, runs, ent, gets) ==
    [l EXCEPT !.fetchRuns = @ + runs, !.entityGets = @ + ent,
              !.gets = @ + gets, !.reqs = @ + gets]

\* The v-else branch of the template is on screen: loading is false and
\* the render could read author.* / video.* (a render that throws leaves
\* the loading placeholder in place).
TemplateRendered ==
    /\ view \in {"AuthorDetail", "VideoDetail"}
    /\ ~Loading
    /\ IF view = "AuthorDetail" THEN authorView.author # Null ELSE videoView.video # Null

ControlsEnabled_noDisable == TemplateRendered

\* the save and trigger buttons carry :disabled="processing"
ControlsEnabled == TemplateRendered /\ ~Processing

ProcessingBecomes(b) ==
    IF view = "AuthorDetail"
    THEN authorView' = [authorView EXCEPT !.processing = b] /\ UNCHANGED videoView
    ELSE videoView' = [videoView EXCEPT !.processing = b] /\ UNCHANGED authorView

\* includeFallback instanceof Event ? false : includeFallback
IncludeFallbackFlag(arg) == IF arg = "Event" THEN FALSE ELSE arg = "true"

\* A handler past its confirm(): processing.value = true, then the one
\* api call it awaits.
Invoke(op, flag) ==
    /\ calls' = calls \cup {[id |-> nextId, op |-> op, flag |-> flag, pc |-> "request"]}
    /\ issued' = Bump(issued, op)
    /\ invoked' = [invoked EXCEPT ![op] = @ + 1]
    /\ nextId' = nextId + 1
    /\ latest' = [id |-> nextId, op |-> op, outcome |-> "pending", done |-> FALSE,
                  alert |-> "none", fetchRuns |-> 0, entityGets |-> 0, gets |-> 0,
                  reqs |-> 1, snap |-> Entity]
    /\ ProcessingBecomes(TRUE)
    /\ UNCHANGED <<view, fetches, routeId, listView, loadLog, playbackLog>>

\* a trigger handler: if (!confirm(message)) return; then the request
Trigger(v, op, flag) ==
    /\ view = v
    /\ ControlsEnabled
    /\ nextId <= MaxInvocations
    /\ \E confirmed \in BOOLEAN :
         IF confirmed THEN Invoke(op, flag) ELSE UNCHANGED viewVars

\* fetchData up to its first await
StartFetch(caller, l) ==
    IF view = "AuthorDetail"
    THEN /\ fetches' = fetches \cup {[caller |-> caller, id |-> routeId,
                                       authRes |-> Pending, vidRes |-> Pending]}
         /\ issued' = Bump(Bump(issued, "getAuthor"), "getAuthorVideos")
         /\ latest' = Count(l, 1, 1, 2)
    ELSE /\ fetches' = fetches \cup {[caller |-> caller, id |-> routeId, pc |-> "getVideo"]}
         /\ issued' = Bump(issued, "getVideo")
         /\ latest' = Count(l, 1, 1, 1)

Views == {"AuthorList", "AuthorDetail", "VideoDetail"}

NoRequests == [e \in Endpoints |-> 0]

\* onMounted: the load of the view, up to its first await
MountFetch(v, id) ==
    CASE v = "AuthorList" -> [caller |-> 0, id |-> id, pc |-> "getAuthors"]
      [] v = "AuthorDetail" -> [caller |-> 0, id |-> id, authRes |-> Pending, vidRes |-> Pending]
      [] v = "VideoDetail" -> [caller |-> 0, id |-> id, pc |-> "getVideo"]

MountRequests(v) ==
    CASE v = "AuthorList" -> Bump(NoRequests, "getAuthors")
      [] v = "AuthorDetail" -> Bump(Bump(NoRequests, "getAuthor"), "getAuthorVideos")
      [] v = "VideoDetail" -> Bump(NoRequests, "getVideo")

Navigate_keepsPlaybackUrl ==
    \E v \in Views :
      \E id \in RouteIds(v) :
        /\ v # view
        /\ view' = v
        /\ routeId' = id
        /\ listView' = ListViewSetup
        /\ authorView' = AuthorViewSetup
        /\ videoView' = [VideoViewSetup EXCEPT !.playbackUrl = videoView.playbackUrl]
        /\ fetches' = {MountFetch(v, routeId')}
        /\ issued' = MountRequests(v)
        /\ calls' = {}
        /\ invoked' = [op \in PublicOps |-> 0]
        /\ nextId' = 1
        /\ latest' = NoInvocation
        /\ loadLog' = NoLoad
        /\ playbackLog' = NoPlayback

\* The router mounts the view of another route: the component of the
\* route left is unmounted, and a new instance runs its setup (const id =
\* route.params.id, every ref at its initial value), then its onMounted
\* load.  Whatever a handler of the unmounted instance still assigns goes
\* to refs no template reads, so the running handlers, the request
\* counters and the logs are those of the mounted instance.
Navigate ==
    \E v \in Views :
      \E id \in RouteIds(v) :
        /\ v # view
        /\ view' = v
        /\ routeId' = id
        /\ listView' = ListViewSetup
        /\ authorView' = AuthorViewSetup
        /\ videoView' = VideoViewSetup
        /\ fetches' = {MountFetch(v, routeId')}
        /\ issued' = MountRequests(v)
        /\ calls' = {}
        /\ invoked' = [op \in PublicOps |-> 0]
        /\ nextId' = 1
        /\ latest' = NoInvocation
        /\ loadLog' = NoLoad
        /\ playbackLog' = NoPlayback

(***************************************************************************)
(* Trigger and save handlers.                                              *)
(***************************************************************************)
triggerRegenerateReport == Trigger("AuthorDetail", "regenerateReport", FALSE)

triggerResummarizeAll ==
    \E arg \in {"Event", "true"} :
        Trigger("AuthorDetail", "resummarizeAll", IncludeFallbackFlag(arg))

triggerResummarizePending == Trigger("AuthorDetail", "resummarizePending", FALSE)

triggerReprocessAsr == Trigger("AuthorDetail", "reprocessAuthorAsr", FALSE)

triggerResummarize ==
    \E arg \in {"Event", "true"} :
        Trigger("VideoDetail", "resummarizeVideo", IncludeFallbackFlag(arg))

triggerReprocessAsrVideo == Trigger("VideoDetail", "reprocessVideoAsr", FALSE)

\* no confirm(): the click sends the request
saveAuthorType ==
    /\ view = "AuthorDetail"
    /\ ControlsEnabled
    /\ nextId <= MaxInvocations
    /\ Invoke("setAuthorType", FALSE)

saveContentType ==
    /\ view = "VideoDetail"
    /\ ControlsEnabled
    /\ nextId <= MaxInvocations
    /\ Invoke("setVideoType", FALSE)

\* v-model on the classification input
EditType ==
    /\ TemplateRendered
    /\ IF view = "AuthorDetail"
       THEN /\ \E t \in AuthorTypes : authorView' = [authorView EXCEPT !.selectedAuthorType = t]
            /\ UNCHANGED videoView
       ELSE /\ \E t \in ContentTypes : videoView' = [videoView EXCEPT !.selectedContentType = t]
            /\ UNCHANGED authorView
    /\ UNCHANGED <<view, calls, fetches, issued, invoked, nextId, latest>>
    /\ UNCHANGED <<routeId, listView, loadLog, playbackLog>>

Settle(c, l, outcome, alert) ==
    IF c.id = l.id THEN [l EXCEPT !.outcome = outcome, !.alert = alert, !.done = TRUE] ELSE l

\* await api.setAuthorType(..) / setVideoType(..) resolved: await fetchData()
SaveResolved(c) ==
    /\ calls' = (calls \ {c}) \cup {[c EXCEPT !.pc = "fetch"]}
    /\ StartFetch(c.id, IF c.id = latest.id THEN [latest EXCEPT !.outcome = "ok"] ELSE latest)
    /\ UNCHANGED <<view, authorView, videoView, invoked, nextId>>
    /\ UNCHANGED <<routeId, listView, loadLog, playbackLog>>

TriggerResolved_refetch(c) == SaveResolved(c)

\* await api.<trigger>(..) resolved: alert(taskStarted), finally
TriggerResolved(c) ==
    /\ calls' = calls \ {c}
    /\ latest' = Settle(c, latest, "ok", "started")
    /\ ProcessingBecomes(FALSE)
    /\ UNCHANGED <<view, fetches, issued, invoked, nextId>>
    /\ UNCHANGED <<routeId, listView, loadLog, playbackLog>>

RequestRejected_silent(c) ==
    /\ calls' = calls \ {c}
    /\ latest' = Settle(c, latest, "failed", "none")
    /\ ProcessingBecomes(FALSE)
    /\ UNCHANGED <<view, fetches, issued, invoked, nextId>>
    /\ UNCHANGED <<routeId, listView, loadLog, playbackLog>>

\* the awaited request rejected: catch (e) { alert(failedPrefix + e.message) }, finally
RequestRejected(c) ==
    /\ calls' = calls \ {c}
    /\ latest' = Settle(c, latest, "failed", "failed")
    /\ ProcessingBecomes(FALSE)
    /\ UNCHANGED <<view, fetches, issued, invoked, nextId>>
    /\ UNCHANGED <<routeId, listView, loadLog, playbackLog>>

\* the backend answers a trigger request
TriggerResponse ==
    \E c \in calls :
        /\ c.op \in TriggerOps
        /\ c.pc = "request"
        /\ \E ok \in BOOLEAN : IF ok THEN TriggerResolved(c) ELSE RequestRejected(c)

\* the backend answers a set_type request
SaveResponse ==
    \E c \in calls :
        /\ c.op \in SaveOps
        /\ c.pc = "request"
        /\ \E ok \in BOOLEAN : IF ok THEN SaveResolved(c) ELSE RequestRejected(c)

(***************************************************************************)
(* fetchData.                                                              *)
(***************************************************************************)
Failed == [kind |-> "failed"]
Ok(d) == [kind |-> "ok", data |-> d]

HasGroup(groups, t) == \E i \in 1..Len(groups) : groups[i].type = t

\* AuthorDetail fetchData, the assignments after Promise.all resolved
AuthorAssign(av, authData, vidData) ==
    LET groups == authData.reports_by_type
        sat == IF authData.author = Null THEN "" ELSE authData.author.author_type
    IN [av EXCEPT
          !.author = authData.author,
          !.report = authData.latest_report,
          !.reportsByType = groups,
          !.selectedAuthorType = sat,
          !.selectedReportType =
              IF sat # "" /\ HasGroup(groups, sat) THEN sat
              ELSE IF Len(groups) > 0 THEN groups[1].type ELSE "",
          !.videos = vidData,
          !.authorStatus = OrElse(authData.author_status, Null)]

\* VideoDetail fetchData, the assignments after getVideo resolved
VideoAssign(vv, data) ==
    [vv EXCEPT
       !.video = data.video,
       !.summary = data.summary,
       !.segments = data.segments,
       !.selectedContentType = IF data.video = Null THEN "" ELSE data.video.content_type]

EndFetch_staysBusy(f, nv) ==
    LET byCall == \E c \in calls : c.id = f.caller
        nv2 == IF byCall THEN [nv EXCEPT !.loading = FALSE]
               ELSE [nv EXCEPT !.loading = FALSE]
    IN /\ fetches' = fetches \ {f}
       /\ calls' = {c \in calls : c.id # f.caller}
       /\ IF view = "AuthorDetail"
          THEN authorView' = nv2 /\ UNCHANGED videoView
          ELSE videoView' = nv2 /\ UNCHANGED authorView
       /\ latest' = IF byCall /\ latest.id = f.caller
                    THEN [latest EXCEPT !.done = TRUE] ELSE latest
       /\ UNCHANGED <<view, issued, invoked, nextId, routeId, listView>>

\* fetchData returns (finally: loading.value = false) with the refs nv; a
\* saveAuthorType / saveContentType awaiting it runs its own finally
EndFetch(f, nv) ==
    LET byCall == \E c \in calls : c.id = f.caller
        nv2 == IF byCall THEN [nv EXCEPT !.loading = FALSE, !.processing = FALSE]
               ELSE [nv EXCEPT !.loading = FALSE]
    IN /\ fetches' = fetches \ {f}
       /\ calls' = {c \in calls : c.id # f.caller}
       /\ IF view = "AuthorDetail"
          THEN authorView' = nv2 /\ UNCHANGED videoView
          ELSE videoView' = nv2 /\ UNCHANGED authorView
       /\ latest' = IF byCall /\ latest.id = f.caller
                    THEN [latest EXCEPT !.done = TRUE] ELSE latest
       /\ UNCHANGED <<view, issued, invoked, nextId, routeId, listView>>

\* the load answered and its assignments ran
LoadOk(ll) == [ll EXCEPT !.last = "ok", !.loaded = @ + 1, !.console = "none"]

\* catch (e) { console.error(e) }
LoadFailed(ll) == [ll EXCEPT !.last = "failed", !.console = "error"]

\* playbackUrl.value = urlRes.data.url
PlaybackOk(pl, url) == [pl EXCEPT !.last = "ok", !.url = url, !.console = "none"]

\* catch (e) { console.warn("Playback URL not available:", e) }
PlaybackFailed(pl) == [pl EXCEPT !.last = "failed", !.console = "warn"]

\* one of the two Promise.all requests resolved, the other still pending
KeepWaiting(f, g) ==
    /\ fetches' = (fetches \ {f}) \cup {g}
    /\ UNCHANGED <<view, authorView, videoView, calls, issued, invoked, nextId, latest>>
    /\ UNCHANGED <<routeId, listView, loadLog, playbackLog>>

\* GET /authors answers: authors.value = res.data, or the catch logs the
\* error; finally loading.value = false
GetAuthorsResponse ==
    /\ view = "AuthorList"
    /\ \E f \in fetches :
         /\ f.pc = "getAuthors"
         /\ \E r \in {Ok(d) : d \in AuthorsResponses} \cup {Failed} :
              /\ fetches' = fetches \ {f}
              /\ listView' = IF r = Failed THEN [listView EXCEPT !.loading = FALSE]
                             ELSE [listView EXCEPT !.authors = r.data, !.loading = FALSE]
              /\ loadLog' = IF r = Failed THEN LoadFailed(loadLog) ELSE LoadOk(loadLog)
    /\ UNCHANGED <<view, routeId, authorView, videoView, calls, issued, invoked, nextId,
                   latest, playbackLog>>

\* GET /authors/:id answers.  A rejection rejects Promise.all at once: the
\* catch logs it, and the sibling response, when it comes, is dropped.
GetAuthorResponse ==
    /\ view = "AuthorDetail"
    /\ \E f \in fetches :
         /\ f.authRes = Pending
         /\ \E r \in {Ok(d) : d \in AuthorResponses} \cup {Failed} :
              IF r = Failed
              THEN /\ EndFetch(f, authorView)
                   /\ loadLog' = LoadFailed(loadLog)
                   /\ UNCHANGED playbackLog
              ELSE IF f.vidRes = Pending THEN KeepWaiting(f, [f EXCEPT !.authRes = r])
              ELSE /\ EndFetch(f, AuthorAssign(authorView, r.data, f.vidRes.data))
                   /\ loadLog' = LoadOk(loadLog)
                   /\ UNCHANGED playbackLog

\* GET /authors/:id/videos answers
GetAuthorVideosResponse ==
    /\ view = "AuthorDetail"
    /\ \E f \in fetches :
         /\ f.vidRes = Pending
         /\ \E r \in {Ok(d) : d \in AuthorVideosResponses} \cup {Failed} :
              IF r = Failed
              THEN /\ EndFetch(f, authorView)
                   /\ loadLog' = LoadFailed(loadLog)
                   /\ UNCHANGED playbackLog
              ELSE IF f.authRes = Pending THEN KeepWaiting(f, [f EXCEPT !.vidRes = r])
              ELSE /\ EndFetch(f, AuthorAssign(authorView, f.authRes.data, r.data))
                   /\ loadLog' = LoadOk(loadLog)
                   /\ UNCHANGED playbackLog

\* GET /videos/:id answers: on success the refs are assigned and the
\* playback request is sent; on failure the outer catch logs it
GetVideoResponse ==
    /\ view = "VideoDetail"
    /\ \E f \in fetches :
         /\ f.pc = "getVideo"
         /\ \E r \in {Ok(d) : d \in VideoResponses} \cup {Failed} :
              IF r = Failed
              THEN /\ EndFetch(f, videoView)
                   /\ loadLog' = LoadFailed(loadLog)
                   /\ UNCHANGED playbackLog
              ELSE /\ videoView' = VideoAssign(videoView, r.data)
                   /\ fetches' = (fetches \ {f}) \cup {[f EXCEPT !.pc = "getVideoPlayback"]}
                   /\ issued' = Bump(issued, "getVideoPlayback")
                   /\ latest' = Count(latest, 0, 0, 1)
                   /\ loadLog' = LoadOk(loadLog)
                   /\ playbackLog' = [playbackLog EXCEPT !.last = "pending"]
                   /\ UNCHANGED <<view, authorView, calls, invoked, nextId, routeId, listView>>

\* GET /videos/:id/playback answers: the inner catch only warns
GetPlaybackResponse ==
    /\ view = "VideoDetail"
    /\ \E f \in fetches :
         /\ f.pc = "getVideoPlayback"
         /\ \E r \in {Ok(u) : u \in PlaybackUrlsOf(f.id)} \cup {Failed} :
              IF r = Failed
              THEN /\ EndFetch(f, videoView)
                   /\ playbackLog' = PlaybackFailed(playbackLog)
                   /\ UNCHANGED loadLog
              ELSE /\ EndFetch(f, [videoView EXCEPT !.playbackUrl = r.data])
                   /\ playbackLog' = PlaybackOk(playbackLog, r.data)
                   /\ UNCHANGED loadLog

ViewInit ==
    /\ view = "none"
    /\ routeId = 0
    /\ listView = ListViewSetup
    /\ loadLog = NoLoad
    /\ playbackLog = NoPlayback
    /\ authorView = AuthorViewSetup
    /\ videoView = VideoViewSetup
    /\ calls = {}
    /\ fetches = {}
    /\ issued = [e \in Endpoints |-> 0]
    /\ invoked = [op \in PublicOps |-> 0]
    /\ nextId = 1
    /\ latest = NoInvocation

(***************************************************************************)
(* Status labels of an item.                                               *)
(***************************************************************************)
AsrVocabulary == {"ready", "fallback", "pending", "missing"}
SummaryVocabulary == {"ready", "pending", "skipped_fallback", "blocked"}
QualityVocabulary == {"full", "summary", "missing"}

\* what a backend record may hold in a status field: nothing, null, '', a
\* vocabulary value, or a value the vocabulary does not know
StatusInputs(vocabulary) ==
    {Undefined, Null, Str("")} \cup {Str(v) : v \in vocabulary} \cup {Str("archived")}

StatusItems ==
    { Item(1, a, s, q) : a \in StatusInputs(AsrVocabulary),
                         s \in StatusInputs(SummaryVocabulary),
                         q \in StatusInputs(QualityVocabulary) }

\* {{ x }}: Vue's toDisplayString shows null and undefined as ''
Interp(v) == IF v.kind \in {"null", "undefined"} THEN Str("") ELSE v

\* t(`status.values.${key}`): the message of that key
Message(key) == [via |-> "t", value |-> key]
\* {{ x }} of a raw field
Text(v) == [via |-> "text", value |-> Interp(v).s]
NotShown == [via |-> "none", value |-> ""]
NotRendered == [kind |-> "not rendered"]

statusText(status) == Message(OrElse(status, Str("pending")).s)
qualityText(quality) == Message(OrElse(quality, Str("summary")).s)

\* VideoDetail, :class of the ASR badge
AsrClass(status) ==
    IF status = Str("ready") THEN "bg-green-100 text-green-700"
    ELSE IF status = Str("fallback") THEN "bg-amber-100 text-amber-700"
    ELSE IF status = Str("missing") THEN "bg-red-100 text-red-700"
    ELSE "bg-yellow-100 text-yellow-700"

\* VideoDetail, :class of the summary badge
SummaryClass(status) ==
    IF status = Str("ready") THEN "bg-green-100 text-green-700"
    ELSE IF status = Str("blocked") THEN "bg-red-100 text-red-700"
    ELSE IF status = Str("skipped_fallback") THEN "bg-amber-100 text-amber-700"
    ELSE "bg-yellow-100 text-yellow-700"

\* both views, :class of the quality badge
QualityClass(quality) ==
    IF quality = Str("full") THEN "bg-green-100 text-green-700"
    ELSE IF quality = Str("summary") THEN "bg-amber-100 text-amber-700"
    ELSE "bg-red-100 text-red-700"

\* AuthorDetail: switch (status) { case 'ready': .. default: .. }
statusClass(status) ==
    CASE status = Str("ready") -> "bg-green-100 text-green-700"
      [] status = Str("fallback") -> "bg-amber-100 text-amber-700"
      [] status = Str("missing") -> "bg-red-100 text-red-700"
      [] status = Str("blocked") -> "bg-red-100 text-red-700"
      [] status = Str("skipped_fallback") -> "bg-yellow-100 text-yellow-700"
      [] OTHER -> "bg-gray-100 text-gray-700"

\* VideoDetail, the badges under the title
RenderVideoDetailBadges ==
    /\ badges' = [by |-> "VideoDetail",
                  asr |-> statusText(item.asr_status),
                  summary |-> statusText(item.summary_status),
                  quality |-> qualityText(item.content_quality),
                  asrClass |-> AsrClass(item.asr_status),
                  summaryClass |-> SummaryClass(item.summary_status),
                  qualityClass |-> QualityClass(item.content_quality)]
    /\ UNCHANGED item

\* AuthorDetail, the badges of one row of the item list
RenderAuthorDetailRow ==
    /\ badges' = [by |-> "AuthorDetail",
                  asr |-> statusText(item.asr_status),
                  summary |-> statusText(item.summary_status),
                  quality |-> qualityText(item.content_quality),
                  asrClass |-> statusClass(item.asr_status),
                  summaryClass |-> statusClass(item.summary_status),
                  qualityClass |-> QualityClass(item.content_quality)]
    /\ UNCHANGED item

\* VideoDetail.vue, the header line: Quality: {{ video.content_quality }}
RenderVideoDetailHeader ==
    /\ badges' = [by |-> "VideoDetail.vue header",
                  asr |-> NotShown,
                  summary |-> NotShown,
                  quality |-> Text(item.content_quality),
                  asrClass |-> "", summaryClass |-> "", qualityClass |-> ""]
    /\ UNCHANGED item

StatusIdle == item = Null /\ badges = NotRendered

(***************************************************************************)
(* The author status rollup and its display.                               *)
(***************************************************************************)
\* items per rollup
MaxItems == 3

RollupItems ==
    { Item(1, Undefined, Str("blocked"), Undefined),
      Item(2, Str("ready"), Str("ready"), Str("full")),
      Item(3, Str("fallback"), Null, Str("missing")),
      Item(4, Str("archived"), Str(""), Str("summary")) }

RECURSIVE SeqsUpTo(_, _)
SeqsUpTo(S, n) ==
    IF n = 0 THEN {<<>>}
    ELSE LET shorter == SeqsUpTo(S, n - 1)
         IN shorter \cup {Append(q, x) : q \in {r \in shorter : Len(r) = n - 1}, x \in S}

EmptyCounts ==
    [total_videos |-> 0, asr_status_counts |-> <<>>,
     summary_status_counts |-> <<>>, content_quality_counts |-> <<>>]

\* the vocabulary value of a status field: missing, unset and unknown
\* values are the field's default
Normalized(v, vocabulary, default) ==
    IF v.kind = "string" /\ v.s \in vocabulary THEN v.s ELSE default

Tally_onlyKnown(m, k) == IF k \in DOMAIN m THEN [m EXCEPT ![k] = @ + 1] ELSE m

\* one more item under key k; a key appears with its first item
Tally(m, k) ==
    IF k \in DOMAIN m THEN [m EXCEPT ![k] = @ + 1]
    ELSE [x \in DOMAIN m \cup {k} |-> IF x = k THEN 1 ELSE m[x]]

\* the single pass of the rollup takes the next item
TallyNext ==
    /\ rollIdx < Len(rollItems)
    /\ LET it == rollItems[rollIdx + 1]
       IN statusCounts' =
            [total_videos |-> statusCounts.total_videos + 1,
             asr_status_counts |->
                 Tally(statusCounts.asr_status_counts,
                       Normalized(it.asr_status, AsrVocabulary, "pending")),
             summary_status_counts |->
                 Tally(statusCounts.summary_status_counts,
                       Normalized(it.summary_status, SummaryVocabulary, "pending")),
             content_quality_counts |->
                 Tally(statusCounts.content_quality_counts,
                       Normalized(it.content_quality, QualityVocabulary, "summary"))]
    /\ rollIdx' = rollIdx + 1
    /\ UNCHANGED <<rollItems, shownCounts>>

\* authorStatus.asr_status_counts.ready and its like: a property read
Get(m, k) == IF k \in DOMAIN m THEN Num(m[k]) ELSE Undefined

\* AuthorDetail header, v-if="authorStatus": the total and one count per
\* vocabulary value
RenderAuthorStatus ==
    /\ rollIdx = Len(rollItems)
    /\ shownCounts' =
         [total |-> Interp(Num(statusCounts.total_videos)),
          asr |-> [k \in AsrVocabulary |-> Interp(Get(statusCounts.asr_status_counts, k))],
          summary |-> [k \in SummaryVocabulary |-> Interp(Get(statusCounts.summary_status_counts, k))],
          quality |-> [k \in QualityVocabulary |-> Interp(Get(statusCounts.content_quality_counts, k))]]
    /\ UNCHANGED <<rollItems, rollIdx, statusCounts>>

RollupIdle ==
    /\ rollItems = <<>>
    /\ rollIdx = 0
    /\ statusCounts = EmptyCounts
    /\ shownCounts = NotRendered

(***************************************************************************)
(* The summary panel of VideoDetail.                                       *)
(***************************************************************************)
\* characters of a content string
MaxContentLen == 4
\* elements of a blocks array
MaxBlocks == 2

ContentAlphabet == {"[", "]", "a", " "}

Arr(items) == [kind |-> "array", items |-> items]
IsArray(v) == v.kind = "array"

\* o.name: undefined when o has no such property (or is no object)
Prop(o, name) ==
    IF o.kind \in {"object", "summary"} /\ name \in DOMAIN o THEN o[name] ELSE Undefined

Block(type, text) == [kind |-> "object", type |-> type, text |-> text]

BlockSamples ==
    { Block(Str("insight"), Str("**a**")),
      Block(Str("quote"), Str("b")),
      Block(Str("note"), Undefined) }

\* json_data: absent, null, a string that was never parsed, or an object
\* whose blocks is absent, not an array, or an array
JsonDatas ==
    {Undefined, Null, Str("{")}
        \cup {[kind |-> "object", blocks |-> b] : b \in {Undefined, Str("none")}}
        \cup {[kind |-> "object", blocks |-> Arr(q)] : q \in SeqsUpTo(BlockSamples, MaxBlocks)}

\* "[intro]hello[body]world"
TaggedContent ==
    Chars(<<"[", "i", "n", "t", "r", "o", "]", "h", "e", "l", "l", "o",
            "[", "b", "o", "d", "y", "]", "w", "o", "r", "l", "d">>)

Contents ==
    {Undefined, Null, Num(7), TaggedContent}
        \cup {Chars(cs) : cs \in SeqsUpTo(ContentAlphabet, MaxContentLen)}

SummaryRecords ==
    {Null} \cup {[kind |-> "summary", content |-> c, json_data |-> j] :
                    c \in Contents, j \in JsonDatas}

summaryBlocks_onlyWithText(s) ==
    IF ~Truthy(s) \/ ~Truthy(Prop(s, "json_data")) THEN <<>>
    ELSE LET blocks == Prop(Prop(s, "json_data"), "blocks")
         IN IF IsArray(blocks) THEN SelectSeq(blocks.items, LAMBDA b : Truthy(b.text)) ELSE <<>>

summaryBlocks(s) ==
    IF ~Truthy(s) \/ ~Truthy(Prop(s, "json_data")) THEN <<>>
    ELSE LET blocks == Prop(Prop(s, "json_data"), "blocks")
         IN IF IsArray(blocks) THEN blocks.items ELSE <<>>

\* /\[([^\]]+?)\]/ tried at position p: the position of the closing
\* bracket, or 0 when there is no match at p
MatchEnd(cs, p) ==
    IF cs[p] # "[" THEN 0
    ELSE LET closing == {q \in (p + 1)..Len(cs) : cs[q] = "]"}
         IN IF closing = {} THEN 0
            ELSE LET q == CHOOSE x \in closing : \A y \in closing : x <= y
                 IN IF q >= p + 2 THEN q ELSE 0

\* content.matchAll(re) from position p on: leftmost matches, each search
\* resuming after the previous match (positions count from 1)
RECURSIVE MatchAll(_, _)
MatchAll(cs, p) ==
    IF p > Len(cs) THEN <<>>
    ELSE LET q == MatchEnd(cs, p)
         IN IF q = 0 THEN MatchAll(cs, p + 1)
            ELSE <<[index |-> p, end |-> q]>> \o MatchAll(cs, q + 1)

\* String.prototype.trim
RECURSIVE Trim(_)
Trim(cs) ==
    IF cs = <<>> THEN <<>>
    ELSE IF Head(cs) = " " THEN Trim(Tail(cs))
    ELSE IF cs[Len(cs)] = " " THEN Trim(SubSeq(cs, 1, Len(cs) - 1))
    ELSE cs

bracketBlocks_toTheEnd(s) ==
    LET content == IF Truthy(s) THEN Prop(s, "content") ELSE Undefined
    IN IF ~Truthy(content) \/ content.kind # "string" THEN <<>>
       ELSE LET cs == content.chars
                matches == MatchAll(cs, 1)
            IN [i \in 1..Len(matches) |->
                  [tag |-> SubSeq(cs, matches[i].index + 1, matches[i].end - 1),
                   text |-> Trim(SubSeq(cs, matches[i].end + 1, Len(cs)))]]

bracketBlocks(s) ==
    LET content == IF Truthy(s) THEN Prop(s, "content") ELSE Undefined
    IN IF ~Truthy(content) \/ content.kind # "string" THEN <<>>
       ELSE LET cs == content.chars
                matches == MatchAll(cs, 1)
            IN [i \in 1..Len(matches) |->
                  [tag |-> SubSeq(cs, matches[i].index + 1, matches[i].end - 1),
                   text |-> Trim(SubSeq(cs, matches[i].end + 1,
                                        IF i + 1 <= Len(matches)
                                        THEN matches[i + 1].index - 1 ELSE Len(cs)))]]

\* md.render(String(value || '')): the HTML of that Markdown source
renderMarkdown(value) == [kind |-> "html", of |-> IF Truthy(value) THEN value ELSE Str("")]

TypedBlocksPanel(s) ==
    LET bs == summaryBlocks(s)
    IN [rule |-> "blocks",
        blocks |-> [i \in 1..Len(bs) |->
                      [key |-> i - 1, heading |-> Interp(Prop(bs[i], "type")),
                       html |-> renderMarkdown(Prop(bs[i], "text"))]],
        text |-> Undefined]

BracketBlocksPanel(s) ==
    LET bs == bracketBlocks(s)
    IN [rule |-> "brackets",
        blocks |-> [i \in 1..Len(bs) |->
                      [key |-> i - 1, heading |-> <<"[">> \o bs[i].tag \o <<"]">>,
                       html |-> renderMarkdown(Chars(bs[i].text))]],
        text |-> Undefined]

Placeholder(rule) == [rule |-> rule, blocks |-> <<>>, text |-> Undefined]

SummaryPanel_bracketsFirst(s) ==
    IF ~Truthy(s) THEN Placeholder("noSummary")
    ELSE IF Len(bracketBlocks(s)) > 0 THEN BracketBlocksPanel(s)
    ELSE IF Len(summaryBlocks(s)) > 0 THEN TypedBlocksPanel(s)
    ELSE IF Truthy(s.content) THEN [rule |-> "freeText", blocks |-> <<>>, text |-> s.content]
    ELSE Placeholder("empty")

\* the v-if / v-else-if chain of the panel: the first branch whose
\* condition holds is the one rendered
SummaryPanel(s) ==
    IF ~Truthy(s) THEN Placeholder("noSummary")
    ELSE IF Len(summaryBlocks(s)) > 0 THEN TypedBlocksPanel(s)
    ELSE IF Len(bracketBlocks(s)) > 0 THEN BracketBlocksPanel(s)
    ELSE IF Truthy(s.content) THEN [rule |-> "freeText", blocks |-> <<>>, text |-> s.content]
    ELSE Placeholder("empty")

\* VideoDetail renders the summary panel
RenderSummaryPanel ==
    /\ panel' = SummaryPanel(summaryRec)
    /\ UNCHANGED <<summaryRec, brackets>>

\* the computed bracketBlocks is evaluated
EvalBracketBlocks ==
    /\ brackets' = Arr(bracketBlocks(summaryRec))
    /\ UNCHANGED <<summaryRec, panel>>

SummaryIdle == summaryRec = Null /\ panel = NotRendered /\ brackets = NotRendered

(***************************************************************************)
(* The summary panel of the earlier VideoDetail: known-field sections.     *)
(***************************************************************************)
VARIABLES
    knownRec,    \* a Summary record handed to the known-field panel
    sections     \* what that panel renders for knownRec

sectionVars == <<knownRec, sections>>

ListFields == {"key_points", "principles", "actionable_guidelines",
               "cognitive_warnings", "case_studies"}
KnownFields == {"one_liner"} \cup ListFields

\* the order of the sections in the template
SectionOrder ==
    <<"one_liner", "key_points", "principles", "actionable_guidelines",
      "cognitive_warnings", "case_studies">>

\* an object holding the known fields (an absent field reads undefined)
Fields(ol, kp, pr, ag, cw, cs) ==
    [kind |-> "object", one_liner |-> ol, key_points |-> kp, principles |-> pr,
     actionable_guidelines |-> ag, cognitive_warnings |-> cw, case_studies |-> cs]

NoFields == Fields(Undefined, Undefined, Undefined, Undefined, Undefined, Undefined)

FieldObjects ==
    { Fields(ol, kp, pr, ag, cw, cs) :
        ol \in {Undefined, Str(""), Str("gist")},
        kp \in {Undefined, Arr(<<>>), Arr(<<Str("a"), Str("b")>>)},
        pr \in {Undefined, Null, Arr(<<>>), Arr(<<Str("p")>>)},
        ag \in {Undefined, Arr(<<Str("g")>>)},
        cw \in {Undefined, Arr(<<>>)},
        cs \in {Undefined, Arr(<<[kind |-> "object", description |-> Str("d")]>>)} }

\* json_data: absent, null, a string that was never parsed, the fields
\* themselves, or the fields under normalized
KnownJsonDatas ==
    {Undefined, Null, Str("{")}
        \cup FieldObjects
        \cup {[kind |-> "object", normalized |-> o] : o \in FieldObjects}

KnownRecords ==
    {Null} \cup {[kind |-> "summary", content |-> c, json_data |-> j] :
                    c \in {Undefined, Str(""), Str("raw text")}, j \in KnownJsonDatas}

summaryNormalized(s) ==
    IF ~Truthy(s) \/ ~Truthy(Prop(s, "json_data")) THEN Null
    ELSE OrElse(Prop(Prop(s, "json_data"), "normalized"), Prop(s, "json_data"))

\* x.length
Length(v) ==
    IF v.kind = "array" THEN Num(Len(v.items))
    ELSE Undefined

SectionShown_anyTruthy(n, f) == Truthy(n) /\ Truthy(Prop(n, f))

\* the v-if of the section of field f
SectionShown(n, f) ==
    /\ Truthy(n)
    /\ Truthy(Prop(n, f))
    /\ f \in {"one_liner", "key_points"} \/ Truthy(Length(Prop(n, f)))

RECURSIVE SectionsFrom(_, _)
SectionsFrom(n, i) ==
    IF i > Len(SectionOrder) THEN <<>>
    ELSE LET f == SectionOrder[i]
         IN (IF SectionShown(n, f) THEN <<[section |-> f, value |-> Prop(n, f)]>> ELSE <<>>)
                \o SectionsFrom(n, i + 1)

\* the last v-if of the panel: summary.content && !summary.json_data
FreeTextShown(s) == Truthy(Prop(s, "content")) /\ ~Truthy(Prop(s, "json_data"))

KnownFieldsPanel(s) ==
    IF ~Truthy(s) THEN [rule |-> "noSummary", sections |-> <<>>, text |-> Undefined]
    ELSE [rule |-> "sections",
          sections |-> SectionsFrom(summaryNormalized(s), 1),
          text |-> IF FreeTextShown(s) THEN Prop(s, "content") ELSE Undefined]

RenderKnownFieldsPanel ==
    /\ sections' = KnownFieldsPanel(knownRec)
    /\ UNCHANGED knownRec

SectionsIdle == knownRec = Null /\ sections = NotRendered

(***************************************************************************)
(* Transcript times.                                                       *)
(***************************************************************************)
VARIABLES
    timeMs,      \* the millisecond offset of a segment
    timeText     \* the text formatTime gives for it

timeVars == <<timeMs, timeText>>

\* minutes a segment offset may reach
MaxMinutes == 100

\* offsets: every second of every minute up to MaxMinutes, on the second,
\* just after it and just before the next
TimeInputs ==
    { m * 60000 + s * 1000 + r : m \in 0..MaxMinutes, s \in 0..59, r \in {0, 1, 999} }

Digits == <<"0", "1", "2", "3", "4", "5", "6", "7", "8", "9">>

\* Number.prototype.toString of a non-negative integer
RECURSIVE toString(_)
toString(n) ==
    IF n < 10 THEN <<Digits[n + 1]>>
    ELSE toString(n \div 10) \o <<Digits[(n % 10) + 1]>>

\* String.prototype.padStart with a one-character filler
RECURSIVE PadStart(_, _, _)
PadStart(cs, n, c) == IF Len(cs) >= n THEN cs ELSE PadStart(<<c>> \o cs, n, c)

formatTime_wrapMinutes(ms) ==
    LET s == ms \div 1000
        m == (s \div 60) % 60
        rs == s % 60
    IN Chars(PadStart(toString(m), 2, "0") \o <<":">> \o PadStart(toString(rs), 2, "0"))

formatTime(ms) ==
    LET s == ms \div 1000
        m == s \div 60
        rs == s % 60
    IN Chars(PadStart(toString(m), 2, "0") \o <<":">> \o PadStart(toString(rs), 2, "0"))

\* the transcript shows formatTime(seg.start_time_ms)
RenderSegmentTime ==
    /\ timeText' = formatTime(timeMs)
    /\ UNCHANGED timeMs

TimeIdle == timeMs = 0 /\ timeText = NotRendered

(***************************************************************************)
(* The LLM call-log view.                                                  *)
(***************************************************************************)
VARIABLES
    logsView,    \* the refs of the call-log view
    logRequests, \* the listLlmCalls requests not yet answered
    logSeq,      \* how many fetchLogs calls have been made
    lastLog      \* the most recently issued request and the answer it got

logVars == <<logsView, logRequests, logSeq, lastLog>>

\* fetchLogs calls per mounted call-log view
MaxFetches == 3

\* limit = ref(30)
DefaultLimit == 30
\* what the limit input may hold; min="1" does not stop a typed value
LimitChoices == {DefaultLimit, 50, -10}

\* the filter fields, as the first of the seven ('' is no filter)
FilterKeys == {"task_type"}
FilterValues(k) == {"", "summary.single"}
NoFilters == [k \in FilterKeys |-> ""]

\* entries the backend holds that match the filters sent
StoredCalls(sent) ==
    IF "task_type" \in DOMAIN sent THEN 40 ELSE 70

Min(a, b) == IF a < b THEN a ELSE b
Max(a, b) == IF a < b THEN b ELSE a

FiltersSent_all(filters) == filters

\* Object.entries(filters.value).forEach(([key, value]) => { if (value) params[key] = value })
FiltersSent(filters) == [k \in {f \in FilterKeys : filters[f] # ""} |-> filters[k]]

\* the body of GET /llm_calls for params: the page, and the total count
LogsPage(params) ==
    LET T == StoredCalls(params.filters)
    IN [items |-> [kind |-> "array", filters |-> params.filters,
                   from |-> params.offset,
                   length |-> Max(0, Min(params.limit, T - params.offset))],
        total |-> Num(T)]

EmptyLogs == [kind |-> "array", filters |-> FiltersSent(NoFilters), from |-> 0, length |-> 0]

LogsViewSetup ==
    [logs |-> EmptyLogs, loading |-> FALSE, error |-> "", total |-> 0,
     limit |-> DefaultLimit, offset |-> 0, filters |-> NoFilters,
     mounted |-> FALSE]

\* what the view held when a request was sent
Held(lv) == [logs |-> lv.logs, total |-> lv.total, offset |-> lv.offset]

NoLog == [seq |-> 0, params |-> Null, answer |-> Null, paging |-> FALSE,
          before |-> Held(LogsViewSetup)]

hasPrev == logsView.offset > 0
hasNext == logsView.offset + logsView.limit < logsView.total

\* fetchLogs up to its await: loading, error, offset, then the request
\* with the current limit, offset and non-empty filters
fetchLogs(lv, resetOffset) ==
    LET off == IF resetOffset THEN 0 ELSE lv.offset
        params == [limit |-> lv.limit, offset |-> off, filters |-> FiltersSent(lv.filters)]
    IN /\ logSeq < MaxFetches
       /\ logsView' = [lv EXCEPT !.loading = TRUE, !.error = "", !.offset = off]
       /\ logRequests' = logRequests \cup {[seq |-> logSeq + 1, params |-> params]}
       /\ logSeq' = logSeq + 1
       /\ lastLog' = [seq |-> logSeq + 1, params |-> params, answer |-> Pending,
                       paging |-> ~resetOffset, before |-> Held(logsView)]

\* onMounted(() => fetchLogs(true))
LogsMounted ==
    /\ ~logsView.mounted
    /\ fetchLogs([logsView EXCEPT !.mounted = TRUE], TRUE)

\* v-model on a filter input
EditFilter ==
    /\ logsView.mounted
    /\ \E k \in FilterKeys :
         \E v \in FilterValues(k) : logsView' = [logsView EXCEPT !.filters[k] = v]
    /\ UNCHANGED <<logRequests, logSeq, lastLog>>

\* v-model.number on the limit input
EditLimit ==
    /\ logsView.mounted
    /\ \E n \in LimitChoices : logsView' = [logsView EXCEPT !.limit = n]
    /\ UNCHANGED <<logRequests, logSeq, lastLog>>

\* the apply button; the refresh button makes the same call, fetchLogs(true)
applyFilters ==
    /\ logsView.mounted
    /\ fetchLogs(logsView, TRUE)

resetFilters ==
    /\ logsView.mounted
    /\ fetchLogs([logsView EXCEPT !.filters = NoFilters], TRUE)

\* the pager is rendered in the v-else of loading / error
PagerRendered == logsView.mounted /\ ~logsView.loading /\ logsView.error = ""

nextPage ==
    /\ PagerRendered
    /\ hasNext
    /\ fetchLogs([logsView EXCEPT !.offset = @ + logsView.limit], FALSE)

prevPage ==
    /\ PagerRendered
    /\ hasPrev
    /\ fetchLogs([logsView EXCEPT !.offset = Max(0, @ - logsView.limit)], FALSE)

\* a listLlmCalls request is answered, whichever of the outstanding ones:
\* the rest of that fetchLogs call runs (assignments or catch, then finally)
LogsResponse ==
    \E r \in logRequests :
      \E answer \in {Ok(LogsPage(r.params)), Failed} :
        /\ logRequests' = logRequests \ {r}
        /\ logsView' =
             IF answer = Failed
             THEN [logsView EXCEPT !.error = "Network Error", !.loading = FALSE]
             ELSE [logsView EXCEPT
                     !.logs = OrElse(answer.data.items, EmptyLogs),
                     !.total = OrElse(answer.data.total, Num(0)).n,
                     !.loading = FALSE]
        /\ lastLog' = IF r.seq = lastLog.seq THEN [lastLog EXCEPT !.answer = answer] ELSE lastLog
        /\ UNCHANGED logSeq

LogsIdle ==
    /\ logsView = LogsViewSetup
    /\ logRequests = {}
    /\ logSeq = 0
    /\ lastLog = NoLog


(***************************************************************************)
(* The report tab of AuthorDetail.                                         *)
(***************************************************************************)
VARIABLES
    repData,     \* the body of GET /authors/:id handed to fetchData
    repView,     \* the refs of AuthorDetail that the report tab reads
    repShown     \* what the report tab shows

reportVars == <<repData, repView, repShown>>

\* the reports a group may list, most recent first
ReportLists ==
    { <<>>, <<Report("")>>, <<Report("new")>>, <<Report("new"), Report("old")>> }

\* reports_by_type with up to two groups
ReportGroupings ==
    { <<>> }
    \cup { << [type |-> ty, reports |-> rs] >> : ty \in {"tech", "generic"}, rs \in ReportLists }
    \cup { << [type |-> "generic", reports |-> rs1], [type |-> "tech", reports |-> rs2] >> :
             rs1 \in ReportLists, rs2 \in ReportLists }

ReportResponses ==
    { [author |-> [kind |-> "author", author_type |-> at],
       latest_report |-> lr,
       reports_by_type |-> g,
       author_status |-> Null] :
        at \in {"", "tech", "howto"}, lr \in {Null, Report("latest")}, g \in ReportGroupings }

\* reportsByType.value[type]
GroupOf(groups, type) ==
    groups[CHOOSE i \in 1..Len(groups) : groups[i].type = type].reports

activeReport_latestOnly(av) == av.report

activeReport(av) ==
    IF av.selectedReportType # "" /\ HasGroup(av.reportsByType, av.selectedReportType)
    THEN LET g == GroupOf(av.reportsByType, av.selectedReportType)
         IN IF Len(g) > 0 THEN g[1] ELSE Undefined
    ELSE av.report

\* Object.keys(reportsByType.value || {})
reportTypes(av) == [i \in 1..Len(av.reportsByType) |-> av.reportsByType[i].type]

renderReport(av) ==
    LET a == activeReport(av)
    IN IF ~Truthy(a) \/ a.content = "" THEN Message("author.noReport")
       ELSE [via |-> "markdown", value |-> a.content]

\* the report tab as rendered from the refs av
ReportTab(av, picked) ==
    [kind |-> "report tab", buttons |-> reportTypes(av),
     selected |-> av.selectedReportType, html |-> renderReport(av), picked |-> picked]

\* fetchData assigns the refs from the response
ReportFetched ==
    /\ repView.loading
    /\ LET av == [AuthorAssign(repView, repData, <<>>) EXCEPT !.loading = FALSE]
       IN /\ repView' = av
          /\ repShown' = ReportTab(av, FALSE)
    /\ UNCHANGED repData

\* a click on the button of a report type: selectedReportType = type
SelectReportType ==
    /\ ~repView.loading
    /\ \E i \in 1..Len(repView.reportsByType) :
         LET av == [repView EXCEPT !.selectedReportType = reportTypes(repView)[i]]
         IN /\ repView' = av
            /\ repShown' = ReportTab(av, TRUE)
    /\ UNCHANGED repData

ReportIdle ==
    /\ repData = Null
    /\ repView = AuthorViewSetup
    /\ repShown = NotRendered


(***************************************************************************)
(* ChatPanel.                                                              *)
(***************************************************************************)
VARIABLES
    chatView,    \* the refs of ChatPanel: messages, query, isLoading
    chatPending  \* the POST /chat requests not yet answered

chatVars == <<chatView, chatPending>>

\* messages the panel may hold before handleChat stops being called
MaxMessages == 7

\* what the input may hold, as characters
Queries == { <<>>, <<" ">>, <<"h", "i">>, <<" ", "a">> }

Welcome == [role |-> "assistant", content |-> Str("chat.welcome")]

ChatViewSetup == [messages |-> <<Welcome>>, query |-> <<>>, isLoading |-> FALSE]

\* v-model="query"; the input carries :disabled="isLoading"
TypeQuery ==
    /\ ~chatView.isLoading
    /\ \E q \in Queries : chatView' = [chatView EXCEPT !.query = q]
    /\ UNCHANGED chatPending

\* handleChat, from the enter key of the input (enabled while not loading),
\* up to its await
handleChat ==
    /\ ~chatView.isLoading
    /\ IF Trim(chatView.query) = <<>> \/ chatView.isLoading
       THEN UNCHANGED chatVars
       ELSE /\ Len(chatView.messages) < MaxMessages
            /\ chatView' = [messages |-> Append(chatView.messages,
                                               [role |-> "user", content |-> Chars(chatView.query)]),
                            query |-> <<>>, isLoading |-> TRUE]
            /\ chatPending' = chatPending \cup {[query |-> chatView.query]}

ChatResponse_silentOnFailure ==
    \E r \in chatPending :
      \E answer \in {Ok([answer |-> Str("answer")]), Failed} :
        /\ chatPending' = chatPending \ {r}
        /\ chatView' =
             IF answer = Failed
             THEN [chatView EXCEPT !.isLoading = FALSE]
             ELSE [chatView EXCEPT
                     !.messages = Append(@, [role |-> "assistant", content |-> answer.data.answer]),
                     !.isLoading = FALSE]

\* POST /chat answers: the answer, or the error text, is pushed; finally
\* isLoading.value = false
ChatResponse ==
    \E r \in chatPending :
      \E answer \in {Ok([answer |-> Str("answer")]), Failed} :
        /\ chatPending' = chatPending \ {r}
        /\ chatView' =
             IF answer = Failed
             THEN [chatView EXCEPT
                     !.messages = Append(@, [role |-> "assistant",
                                             content |-> Str("chat.errorPrefix Network Error")]),
                     !.isLoading = FALSE]
             ELSE [chatView EXCEPT
                     !.messages = Append(@, [role |-> "assistant", content |-> answer.data.answer]),
                     !.isLoading = FALSE]

ChatIdle == chatView = ChatViewSetup /\ chatPending = {}

(***************************************************************************)
(* IngestPanel.                                                            *)
(***************************************************************************)
VARIABLES
    ingestView,    \* the refs of IngestPanel: mid, limit, isLoading, message, error
    ingestPending, \* the POST /ingest requests not yet answered
    ingestSent,    \* how many requests handleIngest has sent
    lastIngest     \* how the request answered last ended

ingestVars == <<ingestView, ingestPending, ingestSent, lastIngest>>

\* requests per mounted panel
MaxIngests == 2

\* limit = ref(10)
IngestLimit == 10

\* what the limit input may hold
IngestLimits == {IngestLimit, 20}

\* what the id input may hold, as characters
Mids == { <<>>, <<" ">>, <<"4", "2">>, <<" ", "7">> }

IngestViewSetup ==
    [mid |-> <<>>, limit |-> IngestLimit, isLoading |-> FALSE, message |-> "", error |-> ""]

\* v-model="mid"
TypeMid ==
    /\ \E m \in Mids : ingestView' = [ingestView EXCEPT !.mid = m]
    /\ UNCHANGED <<ingestPending, ingestSent, lastIngest>>

\* v-model.number="limit"
TypeLimit ==
    /\ \E n \in IngestLimits : ingestView' = [ingestView EXCEPT !.limit = n]
    /\ UNCHANGED <<ingestPending, ingestSent, lastIngest>>

handleIngest_noTrim ==
    /\ ~ingestView.isLoading
    /\ ingestView.mid # <<>>
    /\ ingestSent < MaxIngests
    /\ ingestView' = [ingestView EXCEPT !.isLoading = TRUE, !.message = "", !.error = ""]
    /\ ingestPending' = ingestPending \cup
           {[author_id |-> Trim(ingestView.mid), limit |-> ingestView.limit]}
    /\ ingestSent' = ingestSent + 1
    /\ UNCHANGED lastIngest

\* handleIngest, from the start button (:disabled="isLoading || !mid"), up
\* to its await
handleIngest ==
    /\ ~ingestView.isLoading
    /\ ingestView.mid # <<>>
    /\ IF Trim(ingestView.mid) = <<>>
       THEN UNCHANGED ingestVars
       ELSE /\ ingestSent < MaxIngests
            /\ ingestView' = [ingestView EXCEPT !.isLoading = TRUE, !.message = "", !.error = ""]
            /\ ingestPending' = ingestPending \cup
                   {[author_id |-> Trim(ingestView.mid), limit |-> ingestView.limit]}
            /\ ingestSent' = ingestSent + 1
            /\ UNCHANGED lastIngest

\* POST /ingest answers: message and mid = '', or error; finally
\* isLoading.value = false
IngestResponse ==
    \E r \in ingestPending :
      \E ok \in BOOLEAN :
        /\ ingestPending' = ingestPending \ {r}
        /\ ingestView' =
             IF ok
             THEN [ingestView EXCEPT !.message = "ingest.success", !.mid = <<>>,
                                     !.isLoading = FALSE]
             ELSE [ingestView EXCEPT !.error = "ingest.error", !.isLoading = FALSE]
        /\ lastIngest' = IF ok THEN "ok" ELSE "failed"
        /\ UNCHANGED ingestSent

IngestIdle ==
    /\ ingestView = IngestViewSetup
    /\ ingestPending = {}
    /\ ingestSent = 0
    /\ lastIngest = "none"

(***************************************************************************)
(* Specifications.                                                         *)
(***************************************************************************)
vars == <<viewVars, statusVars, rollupVars, summaryVars, sectionVars, timeVars, logVars, reportVars, chatVars, ingestVars>>

ViewOnly == UNCHANGED <<statusVars, rollupVars, summaryVars, sectionVars, timeVars, logVars, reportVars, chatVars, ingestVars>>
StatusOnly == UNCHANGED <<viewVars, rollupVars, summaryVars, sectionVars, timeVars, logVars, reportVars, chatVars, ingestVars>>
RollupOnly == UNCHANGED <<viewVars, statusVars, summaryVars, sectionVars, timeVars, logVars, reportVars, chatVars, ingestVars>>
SummaryOnly == UNCHANGED <<viewVars, statusVars, rollupVars, sectionVars, timeVars, logVars, reportVars, chatVars, ingestVars>>
SectionsOnly == UNCHANGED <<viewVars, statusVars, rollupVars, summaryVars, timeVars, logVars, reportVars, chatVars, ingestVars>>
TimeOnly == UNCHANGED <<viewVars, statusVars, rollupVars, summaryVars, sectionVars, logVars, reportVars, chatVars, ingestVars>>
LogsOnly == UNCHANGED <<viewVars, statusVars, rollupVars, summaryVars, sectionVars, timeVars, reportVars, chatVars, ingestVars>>
ReportOnly == UNCHANGED <<viewVars, statusVars, rollupVars, summaryVars, sectionVars, timeVars, logVars, chatVars, ingestVars>>
ChatOnly == UNCHANGED <<viewVars, statusVars, rollupVars, summaryVars, sectionVars, timeVars, logVars, reportVars, ingestVars>>
IngestOnly == UNCHANGED <<viewVars, statusVars, rollupVars, summaryVars, sectionVars, timeVars, logVars, reportVars, chatVars>>

\* the detail views
Init == ViewInit /\ StatusIdle /\ RollupIdle /\ SummaryIdle /\ SectionsIdle /\ TimeIdle /\ LogsIdle /\ ReportIdle /\ ChatIdle /\ IngestIdle

Next ==
    \/ Navigate /\ ViewOnly
    \/ EditType /\ ViewOnly
    \/ saveAuthorType /\ ViewOnly
    \/ triggerRegenerateReport /\ ViewOnly
    \/ triggerResummarizeAll /\ ViewOnly
    \/ triggerResummarizePending /\ ViewOnly
    \/ triggerReprocessAsr /\ ViewOnly
    \/ saveContentType /\ ViewOnly
    \/ triggerResummarize /\ ViewOnly
    \/ triggerReprocessAsrVideo /\ ViewOnly
    \/ TriggerResponse /\ ViewOnly
    \/ SaveResponse /\ ViewOnly
    \/ GetAuthorsResponse /\ ViewOnly
    \/ GetAuthorResponse /\ ViewOnly
    \/ GetAuthorVideosResponse /\ ViewOnly
    \/ GetVideoResponse /\ ViewOnly
    \/ GetPlaybackResponse /\ ViewOnly

Spec == Init /\ [][Next]_vars

\* the backend answers one of the requests outstanding
Response ==
    \/ TriggerResponse
    \/ SaveResponse
    \/ GetAuthorsResponse
    \/ GetAuthorResponse
    \/ GetAuthorVideosResponse
    \/ GetVideoResponse
    \/ GetPlaybackResponse

\* requests do not stay unanswered for ever
Answered == WF_vars(Response /\ ViewOnly)

\* the detail views, when the backend answers every request
SpecAnswered == Spec /\ Answered

\* the status labels, for every item
StatusInit ==
    /\ ViewInit
    /\ item \in StatusItems
    /\ badges = NotRendered
    /\ RollupIdle
    /\ SummaryIdle
    /\ SectionsIdle
    /\ TimeIdle
    /\ LogsIdle
    /\ ReportIdle
    /\ ChatIdle
    /\ IngestIdle

StatusNext ==
    \/ RenderVideoDetailBadges /\ StatusOnly
    \/ RenderAuthorDetailRow /\ StatusOnly
    \/ RenderVideoDetailHeader /\ StatusOnly

SpecStatus == StatusInit /\ [][StatusNext]_vars

\* the rollup of every item sequence, and its display
RollupInit ==
    /\ ViewInit
    /\ StatusIdle
    /\ rollItems \in SeqsUpTo(RollupItems, MaxItems)
    /\ rollIdx = 0
    /\ statusCounts = EmptyCounts
    /\ shownCounts = NotRendered
    /\ SummaryIdle
    /\ SectionsIdle
    /\ TimeIdle
    /\ LogsIdle
    /\ ReportIdle
    /\ ChatIdle
    /\ IngestIdle

RollupNext ==
    \/ TallyNext /\ RollupOnly
    \/ RenderAuthorStatus /\ RollupOnly

SpecRollup == RollupInit /\ [][RollupNext]_vars

\* the summary panel, for every summary record
SummaryInit ==
    /\ ViewInit
    /\ StatusIdle
    /\ RollupIdle
    /\ summaryRec \in SummaryRecords
    /\ panel = NotRendered
    /\ brackets = NotRendered
    /\ SectionsIdle
    /\ TimeIdle
    /\ LogsIdle
    /\ ReportIdle
    /\ ChatIdle
    /\ IngestIdle

SummaryNext ==
    \/ RenderSummaryPanel /\ SummaryOnly
    \/ EvalBracketBlocks /\ SummaryOnly

SpecSummary == SummaryInit /\ [][SummaryNext]_vars

\* the known-field panel, for every summary record
SectionsInit ==
    /\ ViewInit
    /\ StatusIdle
    /\ RollupIdle
    /\ SummaryIdle
    /\ knownRec \in KnownRecords
    /\ sections = NotRendered
    /\ TimeIdle
    /\ LogsIdle
    /\ ReportIdle
    /\ ChatIdle
    /\ IngestIdle

SectionsNext == RenderKnownFieldsPanel /\ SectionsOnly

SpecSections == SectionsInit /\ [][SectionsNext]_vars

\* the transcript times, for every offset
TimeInit ==
    /\ ViewInit
    /\ StatusIdle
    /\ RollupIdle
    /\ SummaryIdle
    /\ SectionsIdle
    /\ timeMs \in TimeInputs
    /\ timeText = NotRendered
    /\ LogsIdle
    /\ ReportIdle
    /\ ChatIdle
    /\ IngestIdle

TimeNext == RenderSegmentTime /\ TimeOnly

SpecTime == TimeInit /\ [][TimeNext]_vars

\* the call-log view
LogsInit ==
    /\ ViewInit
    /\ StatusIdle
    /\ RollupIdle
    /\ SummaryIdle
    /\ SectionsIdle
    /\ TimeIdle
    /\ LogsIdle
    /\ ReportIdle
    /\ ChatIdle
    /\ IngestIdle

LogsNext ==
    \/ LogsMounted /\ LogsOnly
    \/ EditFilter /\ LogsOnly
    \/ EditLimit /\ LogsOnly
    \/ applyFilters /\ LogsOnly
    \/ resetFilters /\ LogsOnly
    \/ nextPage /\ LogsOnly
    \/ prevPage /\ LogsOnly
    \/ LogsResponse /\ LogsOnly

SpecLogs == LogsInit /\ [][LogsNext]_vars

\* the report tab, for every body of GET /authors/:id
ReportInit ==
    /\ ViewInit
    /\ StatusIdle
    /\ RollupIdle
    /\ SummaryIdle
    /\ SectionsIdle
    /\ TimeIdle
    /\ LogsIdle
    /\ repData \in ReportResponses
    /\ repView = AuthorViewSetup
    /\ repShown = NotRendered
    /\ ChatIdle
    /\ IngestIdle

ReportNext ==
    \/ ReportFetched /\ ReportOnly
    \/ SelectReportType /\ ReportOnly

SpecReport == ReportInit /\ [][ReportNext]_vars

\* ChatPanel
ChatInit ==
    /\ ViewInit
    /\ StatusIdle
    /\ RollupIdle
    /\ SummaryIdle
    /\ SectionsIdle
    /\ TimeIdle
    /\ LogsIdle
    /\ ReportIdle
    /\ ChatIdle
    /\ IngestIdle

ChatNext ==
    \/ TypeQuery /\ ChatOnly
    \/ handleChat /\ ChatOnly
    \/ ChatResponse /\ ChatOnly

SpecChat == ChatInit /\ [][ChatNext]_vars

\* IngestPanel
IngestInit ==
    /\ ViewInit
    /\ StatusIdle
    /\ RollupIdle
    /\ SummaryIdle
    /\ SectionsIdle
    /\ TimeIdle
    /\ LogsIdle
    /\ ReportIdle
    /\ ChatIdle
    /\ IngestIdle

IngestNext ==
    \/ TypeMid /\ IngestOnly
    \/ TypeLimit /\ IngestOnly
    \/ handleIngest /\ IngestOnly
    \/ IngestResponse /\ IngestOnly

SpecIngest == IngestInit /\ [][IngestNext]_vars

(***************************************************************************)
(* Task triggers and classification saves: C1 - C4.                        *)
(***************************************************************************)

\* C1: once the set_type request of a classification save has succeeded,
\* fetchData has run exactly once for it and the entity (author / video)
\* has been requested exactly once; after a job trigger has succeeded no
\* GET request at all is sent for as long as no further handler is invoked.
C1_RefetchOnlyAfterSave ==
    /\ (latest.op \in SaveOps /\ latest.outcome = "ok")
          => (latest.fetchRuns = 1 /\ latest.entityGets = 1)
    /\ (latest.op \in TriggerOps /\ latest.outcome = "ok")
          => (latest.fetchRuns = 0 /\ latest.gets = 0)

\* a save was re-fetched (mount + one re-fetch), then a bulk trigger succeeded
C1_Witness ==
    /\ view = "AuthorDetail"
    /\ invoked["setAuthorType"] = 1
    /\ issued["GET /authors/:id"] = 2
    /\ latest.op = "resummarizeAll"
    /\ latest.outcome = "ok"
    /\ latest.done

\* C2: when the request of a trigger or of a classification save fails, the
\* failure is alerted, the invocation has sent that one request and nothing
\* else (no retry, no re-fetch), and the loaded entity state is what it was
\* when the handler was invoked.
C2_FailureLeavesStateUntouched ==
    latest.outcome = "failed" =>
        /\ latest.alert = "failed"
        /\ latest.reqs = 1
        /\ latest.fetchRuns = 0
        /\ latest.done
        /\ Entity = latest.snap

\* a save of a loaded author (with items) failed
C2_Witness ==
    /\ view = "AuthorDetail"
    /\ latest.op = "setAuthorType"
    /\ latest.outcome = "failed"
    /\ authorView.author # Null
    /\ authorView.videos # <<>>
    /\ authorView.authorStatus # Null

\* C3: at most one trigger / classification request is outstanding per
\* view, and processing is true exactly while a handler is between sending
\* its request and finishing (the re-fetch of a save included).
C3_BusyWhileOutstanding ==
    /\ Cardinality({c \in calls : c.pc = "request"}) <= 1
    /\ Cardinality(calls) <= 1
    /\ Processing <=> (calls # {})

\* a save whose set_type succeeded is awaiting its re-fetch, still busy
C3_Witness ==
    /\ \E c \in calls : c.pc = "fetch" /\ c.op = "setVideoType"
    /\ \E f \in fetches : f.caller # 0 /\ f.pc = "getVideoPlayback"
    /\ videoView.processing

\* C4: each confirmed invocation of a public operation has sent exactly one
\* request to that operation's own endpoint, so k invocations have sent k.
C4_OneRequestPerInvocation ==
    /\ issued["POST /authors/:id/regenerate_report"] = invoked["regenerateReport"]
    /\ issued["POST /videos/:id/resummarize"] = invoked["resummarizeVideo"]
    /\ issued["POST /authors/:id/resummarize_all"] = invoked["resummarizeAll"]
    /\ issued["POST /authors/:id/resummarize_pending"] = invoked["resummarizePending"]
    /\ issued["POST /videos/:id/reprocess_asr"] = invoked["reprocessVideoAsr"]
    /\ issued["POST /authors/:id/reprocess_asr"] = invoked["reprocessAuthorAsr"]
    /\ issued["POST /authors/:id/set_type"] = invoked["setAuthorType"]
    /\ issued["POST /videos/:id/set_type"] = invoked["setVideoType"]

\* two bulk invocations for an author who has items, and one pending-only
C4_Witness ==
    /\ authorView.videos # <<>>
    /\ invoked["resummarizeAll"] = 2
    /\ invoked["resummarizePending"] = 1
    /\ calls = {}

(***************************************************************************)
(* Status labels and rollup: C5 - C8.                                      *)
(***************************************************************************)
ShownFields == {"asr", "summary", "quality"}

FieldOf(f) ==
    CASE f = "asr" -> "asr_status"
      [] f = "summary" -> "summary_status"
      [] f = "quality" -> "content_quality"

DefaultOf(f) == IF f = "quality" THEN "summary" ELSE "pending"

VocabularyOf(f) ==
    CASE f = "asr" -> AsrVocabulary
      [] f = "summary" -> SummaryVocabulary
      [] f = "quality" -> QualityVocabulary

\* the field's own value when it holds one, else the documented default
OwnOrDefault(v, default) == IF v.kind = "string" /\ v.s # "" THEN v.s ELSE default

\* C5: every status value a template shows for an item is that field's own
\* value when present and the field's default when absent or unset.
C5_ShownIsOwnOrDefault ==
    badges # NotRendered =>
        \A f \in ShownFields :
            badges[f] # NotShown =>
                badges[f].value = OwnOrDefault(item[FieldOf(f)], DefaultOf(f))

\* C6: a status field holding a value outside its closed vocabulary is
\* shown as the field's default.
C6_UnknownShownAsDefault ==
    badges # NotRendered =>
        \A f \in ShownFields :
            LET v == item[FieldOf(f)]
            IN (badges[f] # NotShown /\ v.kind = "string" /\ v.s # ""
                    /\ v.s \notin VocabularyOf(f))
                  => badges[f].value = DefaultOf(f)

RECURSIVE SumOver(_, _)
SumOver(m, keys) ==
    IF keys = {} THEN 0
    ELSE LET k == CHOOSE x \in keys : TRUE IN m[k] + SumOver(m, keys \ {k})

SumOf(m) == SumOver(m, DOMAIN m)

\* C7: when the pass is over, total is the number of items and each of the
\* three tallies sums to total.
C7_TalliesSumToTotal ==
    rollIdx = Len(rollItems) =>
        /\ statusCounts.total_videos = Len(rollItems)
        /\ SumOf(statusCounts.asr_status_counts) = statusCounts.total_videos
        /\ SumOf(statusCounts.summary_status_counts) = statusCounts.total_videos
        /\ SumOf(statusCounts.content_quality_counts) = statusCounts.total_videos

\* three items rolled up, two of them with a missing or unknown status,
\* and a tally that holds two keys
C7_Witness ==
    /\ Len(rollItems) = 3
    /\ rollIdx = 3
    /\ \E i \in 1..3 : rollItems[i].asr_status = Undefined
    /\ \E i \in 1..3 : rollItems[i].asr_status = Str("archived")
    /\ Cardinality(DOMAIN statusCounts.asr_status_counts) = 2

\* C8: the count shown for a vocabulary value that no item has is 0.
C8_UnobservedShownAsZero ==
    shownCounts # NotRendered =>
        /\ \A k \in AsrVocabulary \ DOMAIN statusCounts.asr_status_counts :
               shownCounts.asr[k] = Num(0)
        /\ \A k \in SummaryVocabulary \ DOMAIN statusCounts.summary_status_counts :
               shownCounts.summary[k] = Num(0)
        /\ \A k \in QualityVocabulary \ DOMAIN statusCounts.content_quality_counts :
               shownCounts.quality[k] = Num(0)

(***************************************************************************)
(* Summary rendering: C9 - C10.                                            *)
(***************************************************************************)
\* json_data.blocks of a summary record
BlocksOf(s) == IF Truthy(s) THEN Prop(Prop(s, "json_data"), "blocks") ELSE Undefined

\* content is a string that holds a marker [TAG]
HasMarker(s) ==
    LET c == Prop(s, "content")
    IN /\ c.kind = "string"
       /\ \E p, q \in 1..Len(c.chars) :
            /\ c.chars[p] = "[" /\ c.chars[q] = "]" /\ q > p + 1
            /\ \A k \in (p + 1)..(q - 1) : c.chars[k] # "]"

NonEmptyArray(b) == IsArray(b) /\ Len(b.items) > 0

\* C9 as stated: whenever json_data.blocks is an array, the record is never
\* rendered as bracket segments or as free text, whatever content holds.
C9_ArrayAlwaysRule1 ==
    (panel # NotRendered /\ Truthy(summaryRec) /\ IsArray(BlocksOf(summaryRec)))
        => panel.rule \notin {"brackets", "freeText"}

\* C9, amended: whenever json_data.blocks is a non-empty array the record
\* is rendered as typed blocks, whatever content holds; bracket segments
\* are rendered only when it is not and content holds a marker; free text
\* only when neither.
C9_FirstMatchWins ==
    (panel # NotRendered /\ Truthy(summaryRec)) =>
        /\ NonEmptyArray(BlocksOf(summaryRec)) => panel.rule = "blocks"
        /\ panel.rule = "blocks" => NonEmptyArray(BlocksOf(summaryRec))
        /\ panel.rule = "brackets" =>
               ~NonEmptyArray(BlocksOf(summaryRec)) /\ HasMarker(summaryRec)
        /\ panel.rule = "freeText" =>
               /\ ~NonEmptyArray(BlocksOf(summaryRec))
               /\ ~HasMarker(summaryRec)
               /\ Truthy(summaryRec.content)

\* typed blocks are rendered although content holds a marker
C9_Witness ==
    /\ panel # NotRendered
    /\ panel.rule = "blocks"
    /\ HasMarker(summaryRec)

\* C10 as stated: for a record whose json_data.blocks is an array, the
\* block list the panel renders is as long as the array and its i-th block
\* shows the type and the text of the array's i-th element.
C10_ArrayRenderedAsIs ==
    (panel # NotRendered /\ IsArray(BlocksOf(summaryRec))) =>
        LET input == BlocksOf(summaryRec).items
        IN /\ Len(panel.blocks) = Len(input)
           /\ \A i \in 1..Len(input) :
                /\ panel.blocks[i].heading = input[i].type
                /\ panel.blocks[i].html = renderMarkdown(input[i].text)

\* C10, amended: for a record whose json_data.blocks is a non-empty array,
\* the block list the panel renders is as long as the array, and its i-th
\* block (key i - 1) shows the type and the text of the array's i-th
\* element; for an empty array no typed block is rendered.
C10_BlocksPreserved ==
    (panel # NotRendered /\ IsArray(BlocksOf(summaryRec))) =>
        LET input == BlocksOf(summaryRec).items
        IN IF input = <<>> THEN panel.rule # "blocks"
           ELSE /\ panel.rule = "blocks"
                /\ Len(panel.blocks) = Len(input)
                /\ \A i \in 1..Len(input) :
                     /\ panel.blocks[i].key = i - 1
                     /\ panel.blocks[i].heading = input[i].type
                     /\ panel.blocks[i].html = renderMarkdown(input[i].text)

\* two different blocks, the second without text, rendered in their order
C10_Witness ==
    /\ panel # NotRendered
    /\ panel.rule = "blocks"
    /\ Len(panel.blocks) = 2
    /\ panel.blocks[1].heading = Str("insight")
    /\ panel.blocks[2].heading = Str("note")

(***************************************************************************)
(* Bracket splitting: C11.                                                 *)
(***************************************************************************)
\* a marker [TAG] of cs from p to q: brackets around at least one character,
\* none of which is a closing bracket
IsMarker(cs, p, q) ==
    /\ cs[p] = "[" /\ cs[q] = "]" /\ q > p + 1
    /\ \A k \in (p + 1)..(q - 1) : cs[k] # "]"

MarkerStarts(cs) == {p \in 1..Len(cs) : \E q \in 1..Len(cs) : IsMarker(cs, p, q)}

\* the markers of cs read from the left: no two overlap, and an opening
\* bracket that could start a marker either does or lies inside one
MarkersOf(cs) ==
    LET all == {pq \in (1..Len(cs)) \X (1..Len(cs)) : IsMarker(cs, pq[1], pq[2])}
    IN CHOOSE M \in SUBSET all :
          /\ \A a, b \in M : a # b => (a[2] < b[1] \/ b[2] < a[1])
          /\ \A p \in MarkerStarts(cs) :
                \E a \in M : a[1] = p \/ (a[1] < p /\ p <= a[2])

\* the text between position q and the next marker of M (or the end)
Following(cs, M, q) ==
    LET later == {a[1] : a \in {b \in M : b[1] > q}}
        stop == IF later = {} THEN Len(cs) + 1
                ELSE CHOOSE x \in later : \A y \in later : x <= y
    IN SubSeq(cs, q + 1, stop - 1)

\* cs without its leading and trailing blanks
Stripped(cs) ==
    LET solid == {i \in 1..Len(cs) : cs[i] # " "}
    IN IF solid = {} THEN <<>>
       ELSE SubSeq(cs, CHOOSE x \in solid : \A y \in solid : x <= y,
                       CHOOSE x \in solid : \A y \in solid : x >= y)

Rank(M, a) == Cardinality({b \in M : b[1] <= a[1]})

SplitInput == summaryRec # Null /\ summaryRec.content.kind = "string"

\* C11 as stated: a content with k markers splits into k segments in marker
\* order, segment i with the tag of the i-th marker and with the text that
\* runs from right after that marker to right before the next one (or the
\* end); no marker, no segment.
C11_SegmentsAreTheRawText ==
    (brackets # NotRendered /\ SplitInput) =>
        LET cs == summaryRec.content.chars
            M == MarkersOf(cs)
        IN /\ Len(brackets.items) = Cardinality(M)
           /\ \A a \in M :
                /\ brackets.items[Rank(M, a)].tag = SubSeq(cs, a[1] + 1, a[2] - 1)
                /\ brackets.items[Rank(M, a)].text = Following(cs, M, a[2])

\* C11, amended: as stated, except that the text of a segment is the text
\* between its marker and the next one with leading and trailing
\* whitespace removed.
C11_SegmentsAreTheTrimmedText ==
    (brackets # NotRendered /\ SplitInput) =>
        LET cs == summaryRec.content.chars
            M == MarkersOf(cs)
        IN /\ Len(brackets.items) = Cardinality(M)
           /\ \A a \in M :
                /\ brackets.items[Rank(M, a)].tag = SubSeq(cs, a[1] + 1, a[2] - 1)
                /\ brackets.items[Rank(M, a)].text = Stripped(Following(cs, M, a[2]))

\* "[intro]hello[body]world" was split into intro / hello and body / world
C11_Witness ==
    /\ summaryRec # Null
    /\ summaryRec.content = TaggedContent
    /\ brackets =
         Arr(<< [tag |-> <<"i", "n", "t", "r", "o">>, text |-> <<"h", "e", "l", "l", "o">>],
                [tag |-> <<"b", "o", "d", "y">>, text |-> <<"w", "o", "r", "l", "d">>] >>)

(***************************************************************************)
(* Known-field sections and the free-text fallback: C12 - C13.             *)
(***************************************************************************)
\* the object the known fields are read from: json_data.normalized, or
\* json_data itself when it has no normalized
FieldSource(s) ==
    LET j == s.json_data
    IN IF j.kind = "object" /\ "normalized" \in DOMAIN j THEN j.normalized ELSE j

HasFieldSource(s) == s # Null /\ s.json_data.kind = "object"

Present(v) == v.kind \notin {"undefined", "null"}

NonEmptyValue(v) ==
    \/ v.kind = "string" /\ v.s # ""
    \/ v.kind = "array" /\ v.items # <<>>

RenderedSections == {sections.sections[i].section : i \in 1..Len(sections.sections)}

OrderIndex(f) == CHOOSE i \in 1..Len(SectionOrder) : SectionOrder[i] = f

\* C12 as stated: of the known fields, exactly those that are present have
\* their section rendered.
C12_PresentFieldsRendered ==
    (sections # NotRendered /\ HasFieldSource(knownRec)) =>
        \A f \in KnownFields :
            f \in RenderedSections <=> Present(FieldSource(knownRec)[f])

\* C12, amended: a section is rendered exactly when its field holds a
\* non-empty value (a non-empty string, a non-empty list) or, for
\* key_points only, an empty list; the sections come in the template's
\* order, each with the value of its field.
C12_NonEmptyFieldsRendered ==
    (sections # NotRendered /\ HasFieldSource(knownRec)) =>
        LET src == FieldSource(knownRec)
            out == sections.sections
        IN /\ \A f \in KnownFields :
                f \in RenderedSections <=>
                    \/ NonEmptyValue(src[f])
                    \/ f = "key_points" /\ src[f] = Arr(<<>>)
           /\ \A i \in 1..Len(out) : out[i].value = src[out[i].section]
           /\ \A i, k \in 1..Len(out) :
                i < k => OrderIndex(out[i].section) < OrderIndex(out[k].section)

\* only normalized.key_points = ["a", "b"]: only the key-points section
C12_Witness ==
    /\ sections # NotRendered
    /\ knownRec # Null
    /\ knownRec.json_data =
          [kind |-> "object",
           normalized |-> [NoFields EXCEPT !.key_points = Arr(<<Str("a"), Str("b")>>)]]
    /\ sections.sections =
          <<[section |-> "key_points", value |-> Arr(<<Str("a"), Str("b")>>)]>>

\* json_data is there but holds none of the known fields
Malformed(s) ==
    /\ s # Null
    /\ Present(s.json_data)
    /\ HasFieldSource(s) => \A f \in KnownFields : ~Present(FieldSource(s)[f])

\* C13: a summary whose json_data is present but matches no structured rule,
\* and whose content is present, is rendered as free text.
C13_MalformedFallsBackToText ==
    (sections # NotRendered /\ Malformed(knownRec) /\ Truthy(knownRec.content)) =>
        sections.text = knownRec.content

(***************************************************************************)
(* Nothing to summarise: C14.                                              *)
(***************************************************************************)
\* the record is null, or holds no content, no json_data and no short_json
NothingToShow(s) ==
    \/ s = Null
    \/ /\ ~Present(Prop(s, "content"))
       /\ ~Present(Prop(s, "json_data"))
       /\ ~Present(Prop(s, "short_json"))

\* C14: for a summary with no content, no json_data and no short_json, be
\* the record null or an object without them, the panel shows the
\* 'no summary' text.
C14_NothingMeansNoSummary ==
    (panel # NotRendered /\ NothingToShow(summaryRec)) => panel.rule = "noSummary"

(***************************************************************************)
(* Transcript times: C20.                                                  *)
(***************************************************************************)
DigitValue(c) == (CHOOSE i \in 1..10 : Digits[i] = c) - 1

IsDigit(c) == \E i \in 1..10 : Digits[i] = c

RECURSIVE NumberOf(_)
NumberOf(cs) ==
    IF cs = <<>> THEN 0
    ELSE 10 * NumberOf(SubSeq(cs, 1, Len(cs) - 1)) + DigitValue(cs[Len(cs)])

\* C20: the text is minutes, a colon and seconds; the seconds are two
\* digits that read floor(ms / 1000) mod 60; the minutes are digits that
\* read floor(ms / 60000), two of them at least and no more than the number
\* needs (no hour part, no wrap at 60; milliseconds are cut off).
C20_MinutesColonSeconds ==
    timeText # NotRendered =>
        LET cs == timeText.chars
            n == Len(cs)
            mm == SubSeq(cs, 1, n - 3)
            ss == SubSeq(cs, n - 1, n)
        IN /\ n >= 5
           /\ cs[n - 2] = ":"
           /\ \A i \in (1..n) \ {n - 2} : IsDigit(cs[i])
           /\ NumberOf(ss) = (timeMs \div 1000) % 60
           /\ NumberOf(ss) \in 0..59
           /\ NumberOf(mm) = timeMs \div 60000
           /\ Len(mm) > 2 => mm[1] # "0"

\* 3 600 999 ms is shown as 60:00
C20_Witness ==
    /\ timeMs = 3600999
    /\ timeText = Chars(<<"6", "0", ":", "0", "0">>)

(***************************************************************************)
(* Superseded requests: C18.                                               *)
(***************************************************************************)
\* C18: once every outstanding listLlmCalls request has been answered, and
\* the most recently issued one was answered with a page, the logs and the
\* total displayed are those of that answer.
C18_LatestRequestWins ==
    (logRequests = {} /\ lastLog.seq > 0 /\ lastLog.answer.kind = "ok") =>
        /\ logsView.logs = OrElse(lastLog.answer.data.items, EmptyLogs)
        /\ logsView.total = OrElse(lastLog.answer.data.total, Num(0)).n

(***************************************************************************)
(* Concurrent loads of AuthorDetail: C17.                                  *)
(***************************************************************************)
\* C17: in AuthorDetail, once getAuthor has answered successfully while
\* getAuthorVideos of the same fetchData run is still outstanding, author,
\* report and authorStatus are assigned from that answer; and once
\* getAuthorVideos has answered while getAuthor is outstanding, videos is
\* assigned from it.
C17_PartialArrivalAssigned ==
    view = "AuthorDetail" =>
        \A f \in fetches :
            /\ f.authRes # Pending =>
                  /\ authorView.author = f.authRes.data.author
                  /\ authorView.report = f.authRes.data.latest_report
                  /\ authorView.authorStatus = OrElse(f.authRes.data.author_status, Null)
            /\ f.vidRes # Pending => authorView.videos = f.vidRes.data

(***************************************************************************)
(* The playback link and failed loads: C15, C16, C19.                      *)
(***************************************************************************)
\* C15: every fetchData run of VideoDetail that loaded the item has sent a
\* playback request, each for the item id of the view; playbackUrl is the
\* link of the most recent successful playback request of the mounted
\* view (empty when there was none), a link to the item of the view, and
\* no view mounted later starts with it.
C15_PlaybackLinkIsFresh ==
    /\ \A f \in fetches : f.id = routeId
    /\ view = "VideoDetail" => issued[Endpoint("getVideoPlayback")] = loadLog.loaded
    /\ videoView.playbackUrl = playbackLog.url
    /\ videoView.playbackUrl # "" =>
          /\ view = "VideoDetail"
          /\ videoView.playbackUrl \in PlaybackUrlsOf(routeId)

\* a re-fetch of the second item replaced the link of its first load
C15_Witness ==
    /\ view = "VideoDetail"
    /\ routeId = 2
    /\ loadLog.loaded = 2
    /\ issued[Endpoint("getVideoPlayback")] = 2
    /\ playbackLog.last = "ok"
    /\ videoView.playbackUrl = "https://cdn/2?sig=b"
    /\ latest.op = "setVideoType"
    /\ latest.done

\* C16: whenever the most recent playback request of a VideoDetail view
\* failed, on the initial load or on a re-fetch, the view holds no playback
\* URL (the control is omitted), no failure message was raised, and the
\* rest of the item is displayed.
C16_FailedPlaybackMeansNoLink ==
    (view = "VideoDetail" /\ playbackLog.last = "failed") =>
        /\ videoView.playbackUrl = ""
        /\ playbackLog.alert = "none"
        /\ TemplateRendered

\* C19: a load that failed (getAuthors of AuthorList, fetchData of
\* AuthorDetail, getVideo of VideoDetail) has surfaced a failure message to
\* the user.
C19_LoadFailureIsShown ==
    loadLog.last = "failed" => loadLog.alert # "none"

(***************************************************************************)
(* The detail template and its entity: C23.                                *)
(***************************************************************************)
\* C23: in AuthorDetail and VideoDetail, loading = false implies that the
\* entity of the view (author, video) is loaded and not null, so the
\* v-else branch is never rendered against a null entity.
C23_LoadedWhenNotLoading ==
    /\ (view = "AuthorDetail" /\ ~authorView.loading) => authorView.author # Null
    /\ (view = "VideoDetail" /\ ~videoView.loading) => videoView.video # Null

(***************************************************************************)
(* The busy flag is released: C25.                                         *)
(***************************************************************************)
\* C25: when every request is answered in the end, a trigger or save that
\* set processing to true is followed by processing = false: the busy flag
\* is never left stuck.
C25_BusyEnds == Processing ~> ~Processing

\* a save ran to the end of its re-fetch and released the flag
C25_Witness ==
    /\ view = "AuthorDetail"
    /\ latest.op = "setAuthorType"
    /\ latest.outcome = "ok"
    /\ latest.fetchRuns = 1
    /\ latest.done
    /\ ~authorView.processing
    /\ calls = {}

(***************************************************************************)
(* The report shown: C21.                                                  *)
(***************************************************************************)
\* the type fetchData is to select: the author's own type when it has a
\* group, else the first type, else none
TypeToSelect ==
    LET groups == repData.reports_by_type
        own == repData.author.author_type
    IN IF own # "" /\ \E i \in 1..Len(groups) : groups[i].type = own THEN own
       ELSE IF groups # <<>> THEN groups[1].type
       ELSE ""

\* the reports of the group selected (none when no group is selected)
SelectedReports ==
    LET groups == repData.reports_by_type
        hit == {i \in 1..Len(groups) : groups[i].type = repShown.selected}
    IN IF hit = {} THEN <<>> ELSE groups[CHOOSE i \in hit : TRUE].reports

GroupSelected ==
    \E i \in 1..Len(repData.reports_by_type) :
        repData.reports_by_type[i].type = repShown.selected

ShowsReport(r) == repShown.html = [via |-> "markdown", value |-> r.content]
ShowsNoReport == repShown.html = Message("author.noReport")

\* no report with content, neither the latest nor in a group
AuthorHasNoReport ==
    /\ repData.latest_report = Null
    /\ \A i \in 1..Len(repData.reports_by_type) :
          \A j \in 1..Len(repData.reports_by_type[i].reports) :
              repData.reports_by_type[i].reports[j].content = ""

\* C21 as claimed: after a fetch the selected type is the author's type
\* when it has a group, else the first type, else none; the report shown
\* is the first of the selected group, and the latest report when no group
\* is selected or the selected group is empty; the placeholder appears only
\* when the author has no report at all.
C21_LatestWhenGroupEmpty ==
    repShown # NotRendered =>
        /\ ~repShown.picked => repShown.selected = TypeToSelect
        /\ ShowsNoReport => AuthorHasNoReport
        /\ ~ShowsNoReport =>
             IF SelectedReports # <<>> /\ SelectedReports[1].content # ""
             THEN ShowsReport(SelectedReports[1])
             ELSE ShowsReport(repData.latest_report)

\* C21: after a fetch the selected type is the author's type when it has a
\* group, else the first type, else none; when a group is selected the
\* report shown is its first report, and the placeholder when that group
\* is empty; when no group is selected it is the latest report; the
\* placeholder also stands for a report without content and for no latest
\* report.
C21_FirstOfSelectedGroup ==
    repShown # NotRendered =>
        /\ ~repShown.picked => repShown.selected = TypeToSelect
        /\ repShown.buttons = [i \in 1..Len(repData.reports_by_type) |->
                                 repData.reports_by_type[i].type]
        /\ IF GroupSelected
           THEN IF SelectedReports # <<>> /\ SelectedReports[1].content # ""
                THEN ShowsReport(SelectedReports[1])
                ELSE ShowsNoReport
           ELSE IF repData.latest_report # Null /\ repData.latest_report.content # ""
                THEN ShowsReport(repData.latest_report)
                ELSE ShowsNoReport

\* the author's own group is empty, there is a latest report, and the
\* placeholder is shown
C21_Witness ==
    /\ repShown # NotRendered
    /\ ~repShown.picked
    /\ repShown.selected = "tech"
    /\ GroupSelected
    /\ SelectedReports = <<>>
    /\ repData.latest_report # Null
    /\ ShowsNoReport

(***************************************************************************)
(* The requests of the call-log view: C22.                                 *)
(***************************************************************************)
\* the filter fields that hold a value
FilledIn(filters) == {k \in FilterKeys : filters[k] # ""}

\* the request a step has just sent
Sent == lastLog'.params

\* C22: every call-log request carries the limit and the offset the view
\* holds when it is sent and exactly the filters whose value is not empty;
\* apply and reset send offset 0, and reset sends no filter.
C22_RequestCarriesParams ==
    [][ /\ logSeq' # logSeq =>
             /\ [seq |-> logSeq', params |-> Sent] \in logRequests'
             /\ Sent.limit = logsView'.limit
             /\ Sent.offset = logsView'.offset
             /\ DOMAIN Sent.filters = FilledIn(logsView'.filters)
             /\ \A k \in DOMAIN Sent.filters : Sent.filters[k] = logsView'.filters[k]
        /\ applyFilters => Sent.offset = 0 /\ logsView'.offset = 0
        /\ resetFilters => Sent.offset = 0 /\ logsView'.offset = 0 /\ DOMAIN Sent.filters = {}
      ]_vars

\* the request of a second page went out with the filter typed in
C22_Witness ==
    /\ lastLog.seq > 1
    /\ lastLog.params.offset = 30
    /\ lastLog.params.limit = 30
    /\ DOMAIN lastLog.params.filters = {"task_type"}
    /\ logsView.filters = [task_type |-> "summary.single"]

(***************************************************************************)
(* The loading flag and the pager of the call-log view: C26 - C28.         *)
(***************************************************************************)
\* C26: in the call-log view loading is true whenever a fetchLogs request
\* is outstanding, and false only when none is.
C26_LoadingWhileOutstanding ==
    logsView.mounted => (logsView.loading <=> logRequests # {})

\* C27: in the call-log view offset is never negative (nextPage adds limit
\* only when offset + limit < total, prevPage subtracts it, floored at 0,
\* only when offset > 0), and no request carries a negative offset.
C27_OffsetNeverNegative ==
    /\ logsView.offset >= 0
    /\ \A r \in logRequests : r.params.offset >= 0

\* C28: when the page fetch started by nextPage or prevPage has failed,
\* logs, total and offset are what they were before that navigation, so
\* offset denotes the page held in logs.
C28_FailedPagingKeepsPage ==
    (lastLog.paging /\ lastLog.answer = Failed /\ logRequests = {}) =>
        /\ Held(logsView) = lastLog.before
        /\ logsView.offset = logsView.logs.from

(***************************************************************************)
(* Badge labels and badge styles: C24.                                     *)
(***************************************************************************)
\* the style a view gives to an ASR / summary badge of the value v
StyleOf(by, field, v) ==
    IF by = "AuthorDetail" THEN statusClass(Str(v))
    ELSE IF field = "asr" THEN AsrClass(Str(v)) ELSE SummaryClass(Str(v))

\* C24: the label and the style of each badge denote the same vocabulary
\* value: the style is the one of the value the label names, so an item
\* without content_quality, labelled 'summary', is styled as 'summary'.
C24_StyleMatchesLabel ==
    (badges # NotRendered /\ badges.by \in {"VideoDetail", "AuthorDetail"}) =>
        /\ badges.asrClass = StyleOf(badges.by, "asr", badges.asr.value)
        /\ badges.summaryClass = StyleOf(badges.by, "summary", badges.summary.value)
        /\ badges.qualityClass = QualityClass(Str(badges.quality.value))

(***************************************************************************)
(* The conversation of ChatPanel: C29.                                     *)
(***************************************************************************)
\* the welcome message, then user and assistant messages in turn
Alternating(ms) ==
    /\ ms # <<>>
    /\ ms[1] = Welcome
    /\ \A i \in 2..Len(ms) : ms[i].role = IF i % 2 = 0 THEN "user" ELSE "assistant"

IsPrefix(a, b) == Len(a) <= Len(b) /\ SubSeq(b, 1, Len(a)) = a

\* C29: handleChat does nothing when the query is blank or a request is
\* outstanding, and otherwise appends the user message; a request that
\* completes appends exactly one assistant message; at most one request is
\* outstanding, messages only grows, and whenever isLoading is false
\* messages is the welcome message followed by user / assistant pairs.
C29_OneAnswerPerQuestion ==
    [][ /\ Cardinality(chatPending') <= 1
        /\ IsPrefix(chatView.messages, chatView'.messages)
        /\ Alternating(chatView'.messages)
        /\ ~chatView'.isLoading => Len(chatView'.messages) % 2 = 1
        /\ (Trim(chatView.query) = <<>> \/ chatView.isLoading) =>
               /\ chatPending' \subseteq chatPending
               /\ chatView'.messages # chatView.messages =>
                      chatView'.messages[Len(chatView'.messages)].role = "assistant"
        /\ chatPending' \ chatPending # {} =>
               /\ chatView'.messages =
                      Append(chatView.messages,
                             [role |-> "user", content |-> Chars(chatView.query)])
               /\ chatView'.isLoading
        /\ chatPending' # chatPending /\ Cardinality(chatPending') < Cardinality(chatPending) =>
               /\ Len(chatView'.messages) = Len(chatView.messages) + 1
               /\ chatView'.messages[Len(chatView'.messages)].role = "assistant"
               /\ ~chatView'.isLoading
      ]_vars

\* a failed request and a successful one were both answered with a message
C29_Witness ==
    /\ ~chatView.isLoading
    /\ Len(chatView.messages) = 5
    /\ chatView.messages[3].content = Str("chat.errorPrefix Network Error")
    /\ chatView.messages[4].content = Chars(<<" ", "a">>)
    /\ chatView.messages[5].content = Str("answer")

(***************************************************************************)
(* The ingest form: C30.                                                   *)
(***************************************************************************)
IngestAnswered == Cardinality(ingestPending') < Cardinality(ingestPending)

\* C30: handleIngest issues no request and changes nothing when the author
\* id is blank; once its request completes isLoading is false and exactly
\* one of message / error is non-empty, message on success and error on
\* failure; the id input is cleared on success, left as it is on failure.
C30_OneOutcomeShown ==
    [][ /\ Trim(ingestView.mid) = <<>> =>
               /\ ingestPending' \subseteq ingestPending
               /\ ingestSent' = ingestSent
               /\ ingestView'.mid = ingestView.mid /\ ingestView'.limit = ingestView.limit
                      /\ ~IngestAnswered => UNCHANGED ingestVars
        /\ IngestAnswered =>
               /\ ~ingestView'.isLoading
               /\ lastIngest' \in {"ok", "failed"}
               /\ lastIngest' = "ok" =>
                      /\ ingestView'.message # "" /\ ingestView'.error = ""
                      /\ ingestView'.mid = <<>>
               /\ lastIngest' = "failed" =>
                      /\ ingestView'.error # "" /\ ingestView'.message = ""
                      /\ ingestView'.mid = ingestView.mid
        /\ (ingestPending' = {} /\ lastIngest' # "none") =>
               /\ ~ingestView'.isLoading
               /\ (ingestView'.message # "") # (ingestView'.error # "")
      ]_vars

\* a second request failed after the id was typed again
C30_Witness ==
    /\ ingestSent = 2
    /\ ingestPending = {}
    /\ lastIngest = "failed"
    /\ ingestView.error = "ingest.error"
    /\ ingestView.message = ""
    /\ ingestView.mid = <<" ", "7">>
    /\ ~ingestView.isLoading

====
